---- MODULE Spec2Model ----
(***************************************************************************)
(* presentAI: the /generate_ppt request handler of app.py, with the        *)
(* process-wide colour globals that apply_theme rewrites, the content and  *)
(* image collaborators, the ten slide builders and the history insert.     *)
(*                                                                         *)
(* A request is served in steps (one action per step of generate_ppt);     *)
(* Flask serves requests on threads, so the steps of two requests may      *)
(* interleave and both read and write the same colour globals.             *)
(***************************************************************************)
EXTENDS Integers, Sequences, FiniteSets, TLC

\* A key that a JSON object does not have.
Absent == "<absent>"
\* Python's None, as the value of an image.
None == "None"

(***************************************************************************)
(* Python helpers                                                          *)
(***************************************************************************)
\* dict.get(key, default) on a dict modelled as a function.
DictGet(d, key, default) == IF key \in DOMAIN d THEN d[key] ELSE default

\* dict.get(key, default) on one optional field (Absent: the key is missing).
FieldGet(v, default) == IF v = Absent THEN default ELSE v

(***************************************************************************)
(* Layout constants and colour themes                                      *)
(***************************************************************************)
TOTAL_SLIDES == 10

ColorNames == {"DEEP_NAVY", "ROYAL_BLUE", "WARM_CORAL", "TEAL",
               "SOFT_CREAM", "LIGHT_BLUE_TINT", "LIGHT_CORAL_TINT"}

\* The colour globals as the module sets them when it is imported.
DesignTokens ==
    [DEEP_NAVY |-> <<15, 43, 70>>, ROYAL_BLUE |-> <<30, 90, 168>>,
     WARM_CORAL |-> <<232, 99, 74>>, TEAL |-> <<26, 158, 143>>,
     SOFT_CREAM |-> <<250, 248, 245>>, LIGHT_BLUE_TINT |-> <<237, 243, 250>>,
     LIGHT_CORAL_TINT |-> <<253, 240, 238>>]

THEMES ==
    [indigo |-> [dark |-> <<45, 0, 79>>, primary |-> <<75, 0, 130>>,
                 secondary |-> <<139, 92, 246>>, tertiary |-> <<107, 33, 168>>,
                 light_bg |-> <<248, 247, 252>>, card_bg |-> <<255, 255, 255>>,
                 card_alt |-> <<243, 240, 250>>],
     nature |-> [dark |-> <<45, 90, 58>>, primary |-> <<74, 124, 89>>,
                 secondary |-> <<139, 105, 20>>, tertiary |-> <<90, 158, 111>>,
                 light_bg |-> <<251, 249, 245>>, card_bg |-> <<255, 255, 255>>,
                 card_alt |-> <<245, 242, 235>>],
     moss   |-> [dark |-> <<58, 67, 24>>, primary |-> <<86, 97, 41>>,
                 secondary |-> <<139, 115, 85>>, tertiary |-> <<122, 139, 69>>,
                 light_bg |-> <<248, 249, 245>>, card_bg |-> <<255, 255, 255>>,
                 card_alt |-> <<242, 243, 238>>],
     navy   |-> [dark |-> <<15, 10, 58>>, primary |-> <<26, 18, 100>>,
                 secondary |-> <<74, 69, 176>>, tertiary |-> <<46, 40, 144>>,
                 light_bg |-> <<247, 247, 252>>, card_bg |-> <<255, 255, 255>>,
                 card_alt |-> <<240, 240, 248>>]]

\* A theme that resolves every unknown name to the last theme, not to indigo.
apply_theme_no_default(name) ==
    LET t == IF name \in DOMAIN THEMES THEN THEMES[name] ELSE THEMES["navy"]
    IN  [DEEP_NAVY |-> t.dark, ROYAL_BLUE |-> t.primary,
         WARM_CORAL |-> t.secondary, TEAL |-> t.tertiary,
         SOFT_CREAM |-> t.light_bg, LIGHT_BLUE_TINT |-> t.card_bg,
         LIGHT_CORAL_TINT |-> t.card_alt]

\* apply_theme(name): the values it assigns to the seven colour globals.
apply_theme(name) ==
    LET t == DictGet(THEMES, name, THEMES["indigo"])
    IN  [DEEP_NAVY |-> t.dark, ROYAL_BLUE |-> t.primary,
         WARM_CORAL |-> t.secondary, TEAL |-> t.tertiary,
         SOFT_CREAM |-> t.light_bg, LIGHT_BLUE_TINT |-> t.card_bg,
         LIGHT_CORAL_TINT |-> t.card_alt]

(***************************************************************************)
(* generate_slide_content: at most two calls of the text service           *)
(***************************************************************************)
\* What one call of the text service leads to: text that json.loads turns
\* into a document, the text null that json.loads turns into None, text it
\* rejects (JSONDecodeError), or any other exception.
TextOutcomes == {"json", "null", "badjson", "error"}

\* The for-loop over range(2). `run` gives the outcome of each call in turn.
\* The result says whether a document was returned and how many calls were made.
RECURSIVE content_attempt(_, _)
content_attempt(run, attempt) ==
    IF attempt >= 2 THEN [ok |-> FALSE, calls |-> attempt]
    ELSE IF run[attempt + 1] = "json" THEN [ok |-> TRUE, calls |-> attempt + 1]
    ELSE IF run[attempt + 1] = "null" THEN [ok |-> FALSE, calls |-> attempt + 1]
    ELSE IF attempt = 0 THEN content_attempt(run, attempt + 1)
    ELSE [ok |-> FALSE, calls |-> attempt + 1]

generate_slide_content(run) == content_attempt(run, 0)

(***************************************************************************)
(* generate_image: two endpoints, three attempts each                      *)
(***************************************************************************)
\* One answer of the image service. ct_image: the Content-Type names an image;
\* big: the body has more than 1000 bytes; picture: the body decodes as a
\* picture that python-pptx can embed.
Http(status, ct_image, big, picture) ==
    [kind |-> "http", status |-> status, ct_image |-> ct_image,
     big |-> big, picture |-> picture]
RespPicture == Http(200, TRUE, TRUE, TRUE)
RespBigText == Http(200, FALSE, TRUE, FALSE)
RespCorrupt == Http(200, TRUE, FALSE, FALSE)
RespSmallText == Http(200, FALSE, FALSE, FALSE)
RespLoading == Http(503, FALSE, FALSE, FALSE)
RespUnauthorized == Http(401, FALSE, FALSE, FALSE)
RespForbidden == Http(403, FALSE, FALSE, FALSE)
RespServerError == Http(500, FALSE, FALSE, FALSE)
RespTimeout == [kind |-> "timeout", status |-> 0, ct_image |-> FALSE,
                big |-> FALSE, picture |-> FALSE]
RespException == [kind |-> "exception", status |-> 0, ct_image |-> FALSE,
                  big |-> FALSE, picture |-> FALSE]

Responses == {RespPicture, RespBigText, RespCorrupt, RespSmallText, RespLoading,
              RespUnauthorized, RespForbidden, RespServerError, RespTimeout,
              RespException}

\* The number of endpoints in api_urls and of attempts on each.
NumEndpoints == 2
NumAttempts == 3

\* What BytesIO(resp.content) holds: a picture, or bytes that are none.
Body(resp) == IF resp.picture THEN "picture" ELSE "junk"

\* The loops with `break` in place of `return None` after 401 or 403: the
\* next endpoint is tried.
RECURSIVE image_loop_auth_breaks(_, _, _, _, _)
image_loop_auth_breaks(run, url, attempt, posts, sleeps) ==
    IF url > NumEndpoints
    THEN [result |-> None, posts |-> posts, sleeps |-> sleeps]
    ELSE IF attempt >= NumAttempts
    THEN image_loop_auth_breaks(run, url + 1, 0, posts, sleeps)
    ELSE LET resp == run[Len(posts) + 1]
             sent == Append(posts, url)
         IN  IF resp.kind # "http"
             THEN image_loop_auth_breaks(run, url, attempt + 1, sent, sleeps)
             ELSE IF resp.status = 200
             THEN IF resp.ct_image \/ resp.big
                  THEN [result |-> Body(resp), posts |-> sent, sleeps |-> sleeps]
                  ELSE image_loop_auth_breaks(run, url, attempt + 1, sent, sleeps)
             ELSE IF resp.status = 503
             THEN IF attempt < 2
                  THEN image_loop_auth_breaks(run, url, attempt + 1, sent, sleeps + 1)
                  ELSE image_loop_auth_breaks(run, url, attempt + 1, sent, sleeps)
             ELSE image_loop_auth_breaks(run, url + 1, 0, sent, sleeps)

\* The nested loops of generate_image. url is the endpoint (1-based), attempt
\* the attempt on it (0-based), posts the endpoints posted to so far, sleeps the
\* number of time.sleep calls. run[i] answers the i-th request.
RECURSIVE image_loop(_, _, _, _, _)
image_loop(run, url, attempt, posts, sleeps) ==
    IF url > NumEndpoints
    THEN [result |-> None, posts |-> posts, sleeps |-> sleeps]
    ELSE IF attempt >= NumAttempts
    THEN image_loop(run, url + 1, 0, posts, sleeps)
    ELSE LET resp == run[Len(posts) + 1]
             sent == Append(posts, url)
         IN  IF resp.kind # "http"
             THEN image_loop(run, url, attempt + 1, sent, sleeps)
             ELSE IF resp.status = 200
             THEN IF resp.ct_image \/ resp.big
                  THEN [result |-> Body(resp), posts |-> sent, sleeps |-> sleeps]
                  ELSE image_loop(run, url, attempt + 1, sent, sleeps)
             ELSE IF resp.status = 503
             THEN IF attempt < 2
                  THEN image_loop(run, url, attempt + 1, sent, sleeps + 1)
                  ELSE image_loop(run, url, attempt + 1, sent, sleeps)
             ELSE IF resp.status \in {401, 403}
             THEN [result |-> None, posts |-> sent, sleeps |-> sleeps]
             ELSE image_loop(run, url + 1, 0, sent, sleeps)

\* generate_image without the check of HF_API_KEY.
generate_image_unchecked_key(has_key, run) == image_loop(run, 1, 0, <<>>, 0)

\* generate_image(prompt): has_key is whether HF_API_KEY is non-empty.
generate_image(has_key, run) ==
    IF ~has_key THEN [result |-> None, posts |-> <<>>, sleeps |-> 0]
    ELSE image_loop(run, 1, 0, <<>>, 0)

(***************************************************************************)
(* Slides and slide builders                                               *)
(***************************************************************************)
SlideNumbers == 1..TOTAL_SLIDES
\* The slides of the content document: "slides" holds entries 2..10.
ContentSlides == 2..TOTAL_SLIDES
\* The slides that have an A and a B builder.
VariantSlides == 2..9
\* The slides an image is generated for.
ImageSlides == {1, 4, 6, 9}

\* The keys of slide_designs are strings; the keys of slides are integers.
KeyOf == <<"1", "2", "3", "4", "5", "6", "7", "8", "9", "10">>
DesignKeys == {KeyOf[k] : k \in VariantSlides}

\* The field a builder reads after the title: data["cards"], data["bullets"],
\* data["left"] and data["right"], data["steps"].
BodyField(kind) ==
    CASE kind \in {2, 3, 5, 10} -> "cards"
      [] kind \in {4, 6, 9} -> "bullets"
      [] kind = 7 -> "left"
      [] kind = 8 -> "steps"
      [] OTHER -> ""

\* The colour globals a builder reads.
UsedColors(kind, variant) ==
    CASE kind = 1 -> {"SOFT_CREAM", "WARM_CORAL"}
      [] kind = 2 -> {"SOFT_CREAM", "ROYAL_BLUE", "WARM_CORAL", "TEAL"}
      [] kind = 3 /\ variant # "B" ->
            {"SOFT_CREAM", "ROYAL_BLUE", "WARM_CORAL", "TEAL"}
      [] kind = 3 /\ variant = "B" ->
            {"SOFT_CREAM", "ROYAL_BLUE", "WARM_CORAL", "TEAL",
             "LIGHT_BLUE_TINT", "LIGHT_CORAL_TINT"}
      [] kind = 4 -> {"SOFT_CREAM", "WARM_CORAL"}
      [] kind = 5 /\ variant # "B" -> {"SOFT_CREAM", "TEAL", "LIGHT_BLUE_TINT"}
      [] kind = 5 /\ variant = "B" ->
            {"SOFT_CREAM", "ROYAL_BLUE", "WARM_CORAL", "TEAL"}
      [] kind = 6 /\ variant # "B" ->
            {"SOFT_CREAM", "ROYAL_BLUE", "DEEP_NAVY", "WARM_CORAL"}
      [] kind = 6 /\ variant = "B" ->
            {"SOFT_CREAM", "ROYAL_BLUE", "WARM_CORAL", "TEAL", "DEEP_NAVY"}
      [] kind = 7 -> {"SOFT_CREAM", "LIGHT_BLUE_TINT", "ROYAL_BLUE",
                      "LIGHT_CORAL_TINT", "WARM_CORAL"}
      [] kind = 8 -> {"LIGHT_BLUE_TINT", "ROYAL_BLUE", "WARM_CORAL", "TEAL"}
      [] kind = 9 -> {"SOFT_CREAM", "WARM_CORAL", "TEAL"}
      [] OTHER -> {"DEEP_NAVY", "WARM_CORAL", "LIGHT_CORAL_TINT"}

NoError == [type |-> "", at |-> 0, key |-> ""]
\* data[key] on a dict without the key, raised while slide `at` is built.
KeyError(at, key) == [type |-> "KeyError", at |-> at, key |-> key]
\* add_picture on bytes that are no picture.
ImageError(at) == [type |-> "UnidentifiedImageError", at |-> at, key |-> ""]
\* A division by len(...) of an empty list.
ZeroDivisionError(at) == [type |-> "ZeroDivisionError", at |-> at, key |-> ""]

\* add_side_image / add_square_image: a picture when image_bytes is truthy, or
\* the grey box labelled "IMAGE".
add_image(image_bytes) == IF image_bytes # None THEN "picture" ELSE "placeholder"

\* The page indicator counted from zero.
add_slide_number_from_zero(num, total) == <<num - 1, total>>

\* add_slide_number(slide, num, total): the text "num / total".
add_slide_number(num, total) == <<num, total>>

(***************************************************************************)
(* Geometry. Lengths are whole numbers of ticks, 120000 ticks to the inch, *)
(* so that the source's decimals and every quotient its builders form are  *)
(* exact; Inches() turns ticks into the EMU that python-pptx stores.       *)
(***************************************************************************)
\* A length written in thousandths of an inch, in ticks.
Mil(thousandths) == thousandths * 120
\* pptx.util.Inches(x): int(x * 914400), that is 381/50 EMU to the tick.
Inches(ticks) == (ticks * 381) \div 50
\* Inches() of a length written in thousandths of an inch.
In(thousandths) == Inches(Mil(thousandths))
\* pptx.util.Pt(0.75): int(0.75 * 12700)
Pt075 == 9525

Min(a, b) == IF a <= b THEN a ELSE b
Max(a, b) == IF a >= b THEN a ELSE b

SW == Mil(13333)
SH == Mil(7500)
MG == Mil(600)
CT == Mil(1800)
CW == SW - 2 * MG
GAP == Mil(300)
IMG_SZ == Mil(5000)
IMG_RX == SW - MG - IMG_SZ
IMG_TOP == CT
TXT_BW == IMG_RX - MG - GAP
SIDE_W == Mil(5000)
SIDE_H == SH

\* A shape's left, top, width and height, in EMU.
Box(left, top, width, height) ==
    [left |-> left, top |-> top, width |-> width, height |-> height]

\* seq[-count:], the last items in place of the first.
TakeLast(seq, count) == SubSeq(seq, Max(1, Len(seq) - count + 1), Len(seq))
\* seq[:count]
Take(seq, count) == SubSeq(seq, 1, Min(count, Len(seq)))

\* add_textbox / add_bullet_text: one text box.
add_bullet_text(left, top, width, height) == <<Box(left, top, width, height)>>
\* add_dot_badge: a 0.12" circle.
add_dot_badge(left, top) == <<Box(left, top, In(120), In(120))>>
\* add_circle: a circle of the given size.
add_circle(left, top, size) == <<Box(left, top, size, size)>>
\* add_accent_line: a bar 0.06" high.
add_accent_line(left, top, width) == <<Box(left, top, width, In(60))>>
\* add_card with an accent colour: the card and the bar along its top edge.
add_card(left, top, width, height) ==
    <<Box(left, top, width, height),
      Box(left + In(80), top, width - In(160), In(70))>>
\* add_card_left_accent with an accent colour: the card and the bar on its left.
add_card_left_accent(left, top, width, height) ==
    <<Box(left, top, width, height),
      Box(left, top + In(80), In(70), height - In(160))>>
\* add_card_with_bullets: the card, its title box and its bullet box.
add_card_with_bullets(left, top, width, height) ==
    add_card(left, top, width, height) \o
    <<Box(left + In(200), top + In(150), width - In(400), In(500))>> \o
    add_bullet_text(left + In(150), top + In(600), width - In(300),
                    height - In(700))

\* add_square_image(slide, image_bytes, left, top, size): the picture, or the
\* grey rectangle labelled "IMAGE", on the same box.
add_square_image(image_bytes, left, top, size) ==
    IF image_bytes # None
    THEN [label |-> "",
          box |-> Box(Inches(left), Inches(top), Inches(size), Inches(size))]
    ELSE [label |-> "IMAGE",
          box |-> Box(Inches(left), Inches(top), Inches(size), Inches(size))]
\* add_side_image(slide, image_bytes, side, width, height): flush to the left
\* or the right edge, from the top of the slide.
add_side_image(image_bytes, side, width, height) ==
    LET left == IF side = "left" THEN 0 ELSE SW - width
    IN  IF image_bytes # None
        THEN [label |-> "",
              box |-> Box(Inches(left), 0, Inches(width), Inches(height))]
        ELSE [label |-> "IMAGE",
              box |-> Box(Inches(left), 0, Inches(width), Inches(height))]
\* No image on the slide.
NoImage == [label |-> "", box |-> Box(0, 0, 0, 0)]

\* The text box of add_slide_number, right-aligned.
SlideNumberBox == Box(Inches(SW - MG - Mil(1000)), Inches(SH - Mil(550)),
                      In(1000), In(350))

(***************************************************************************)
(* The item loops of the builders: what each draws for the cards, bullets  *)
(* or steps it is given. The result says whether the builder divided by    *)
(* zero, and lists the items drawn, each with the shapes drawn for it.     *)
(***************************************************************************)
\* One drawn item: the entry of the list it shows, the row, stack, grid or
\* column it belongs to, and its shapes.
Item(entry, group, boxes) == [item |-> entry, group |-> group, boxes |-> boxes]
Drawn(items) == [zero |-> FALSE, items |-> items]
\* ZeroDivisionError before anything is drawn for the list.
DividedByZero == [zero |-> TRUE, items |-> <<>>]

\* slide_2a_dot_badge_rows: rows of fixed height, the first three cards.
slide_2a_dot_badge_rows(all_cards) ==
    LET cards == Take(all_cards, 3)
        row_h == Mil(1550)
        row_gap == Mil(200)
    IN  Drawn([i \in 1..Len(cards) |->
          LET y == CT + (i - 1) * (row_h + row_gap)
          IN  Item(cards[i], "stack",
                add_dot_badge(Inches(MG + Mil(20)), Inches(y + Mil(70))) \o
                add_bullet_text(Inches(MG + Mil(280)), Inches(y),
                                Inches(CW - Mil(280)), In(400)) \o
                add_bullet_text(Inches(MG + Mil(280)), Inches(y + Mil(420)),
                                Inches(CW - Mil(280)), Inches(row_h - Mil(450))))])

\* The cards of slide_2b, each 1.60 high whatever their number.
slide_2b_nominal_height(all_cards) ==
    LET cards == Take(all_cards, 3)
        n == Len(cards)
        card_gap == Mil(200)
        card_h == Mil(1600)
    IN  IF n = 0 THEN DividedByZero
        ELSE Drawn([i \in 1..n |->
               LET y == CT + (i - 1) * (card_h + card_gap)
               IN  Item(cards[i], "stack",
                     add_card_left_accent(Inches(MG), Inches(y),
                                          Inches(CW), Inches(card_h)) \o
                     add_bullet_text(Inches(MG + Mil(300)), Inches(y + Mil(120)),
                                     Inches(CW - Mil(500)), In(400)) \o
                     add_bullet_text(Inches(MG + Mil(250)), Inches(y + Mil(500)),
                                     Inches(CW - Mil(450)),
                                     Inches(card_h - Mil(600))))])

\* slide_2b_left_accent_cards: card_h = min((SH - CT - MG - (n-1)*gap) / n, 1.60)
slide_2b_left_accent_cards(all_cards) ==
    LET cards == Take(all_cards, 3)
        n == Len(cards)
        card_gap == Mil(200)
    IN  IF n = 0 THEN DividedByZero
        ELSE LET card_h == Min((SH - CT - MG - (n - 1) * card_gap) \div n, Mil(1600))
             IN  Drawn([i \in 1..n |->
                   LET y == CT + (i - 1) * (card_h + card_gap)
                   IN  Item(cards[i], "stack",
                         add_card_left_accent(Inches(MG), Inches(y),
                                              Inches(CW), Inches(card_h)) \o
                         add_bullet_text(Inches(MG + Mil(300)), Inches(y + Mil(120)),
                                         Inches(CW - Mil(500)), In(400)) \o
                         add_bullet_text(Inches(MG + Mil(250)), Inches(y + Mil(500)),
                                         Inches(CW - Mil(450)),
                                         Inches(card_h - Mil(600))))])

\* A row of n equal cards across CW with gaps of GAP, as slide_3a and slide_3b
\* draw it: card_w = (CW - (n - 1) * GAP) / n.
cards_row(cards) ==
    LET n == Len(cards)
    IN  IF n = 0 THEN DividedByZero
        ELSE LET card_w == (CW - (n - 1) * GAP) \div n
                 card_h == Mil(5000)
             IN  Drawn([i \in 1..n |->
                   LET x == MG + (i - 1) * (card_w + GAP)
                   IN  Item(cards[i], "row",
                         add_card_with_bullets(Inches(x), Inches(CT),
                                               Inches(card_w), Inches(card_h)))])

slide_3a_three_cards_row(all_cards) == cards_row(Take(all_cards, 3))

\* n = min(len(cards), 4), and cards[:n] of cards[:4]
slide_3b_four_cards_row(all_cards) ==
    LET cards == Take(all_cards, 4)
    IN  cards_row(Take(cards, Min(Len(cards), 4)))

\* slide_5a_grid_badges: the four cells of a fixed 2x2 grid, each card with
\* its numbered badge.
slide_5a_grid_badges(all_cards) ==
    LET cards == Take(all_cards, 4)
        card_w == (CW - GAP) \div 2
        v_gap == Mil(240)
        card_h == (Mil(5000) - v_gap) \div 2
        positions == <<<<MG, CT>>, <<MG + card_w + GAP, CT>>,
                       <<MG, CT + card_h + v_gap>>,
                       <<MG + card_w + GAP, CT + card_h + v_gap>>>>
    IN  Drawn([i \in 1..Len(cards) |->
          LET lx == positions[i][1]
              ly == positions[i][2]
          IN  Item(cards[i], "grid",
                add_card_with_bullets(Inches(lx), Inches(ly),
                                      Inches(card_w), Inches(card_h)) \o
                add_circle(Inches(lx + card_w - Mil(550)), Inches(ly + Mil(100)),
                           In(400)))])

\* The columns of slide_5b at the places of the nominal four columns, each as
\* wide as the actual count makes it.
slide_5b_nominal_places(all_cards) ==
    LET cards == Take(all_cards, 4)
        n == Len(cards)
    IN  IF n = 0 THEN DividedByZero
        ELSE LET card_w == (CW - (n - 1) * GAP) \div n
                 place_w == (CW - 3 * GAP) \div 4
             IN  Drawn([i \in 1..n |->
                   Item(cards[i], "row",
                        add_card(Inches(MG + (i - 1) * (place_w + GAP)), Inches(CT),
                                 Inches(card_w), In(5000)))])

\* slide_5b_stat_columns: a row of up to four stat cards.
slide_5b_stat_columns(all_cards) ==
    LET cards == Take(all_cards, 4)
        n == Len(cards)
    IN  IF n = 0 THEN DividedByZero
        ELSE LET card_w == (CW - (n - 1) * GAP) \div n
                 card_h == Mil(5000)
                 line_w == Min(Mil(800), (card_w * 35) \div 100)
                 line_y == CT + Mil(950)
             IN  Drawn([i \in 1..n |->
                   LET x == MG + (i - 1) * (card_w + GAP)
                   IN  Item(cards[i], "row",
                         add_card(Inches(x), Inches(CT),
                                  Inches(card_w), Inches(card_h)) \o
                         add_bullet_text(Inches(x + Mil(150)), Inches(CT + Mil(200)),
                                         Inches(card_w - Mil(300)), In(650)) \o
                         add_accent_line(Inches(x + (card_w - line_w) \div 2),
                                         Inches(line_y), Inches(line_w)) \o
                         add_bullet_text(Inches(x + Mil(100)), Inches(line_y + Mil(180)),
                                         Inches(card_w - Mil(200)),
                                         Inches(card_h - (line_y - CT) - Mil(330))))])

\* slide_6b_cards_banner: the first five bullets, one card each, stacked
\* beside the image above the banner.
slide_6b_cards_banner(bullets) ==
    LET banner_h == Mil(1100)
        banner_top == SH - banner_h
        card_w == IMG_RX - MG - GAP
        n == Min(Len(bullets), 5)
        avail_h == banner_top - CT - Mil(200)
        card_gap == Mil(150)
    IN  IF n = 0 THEN DividedByZero
        ELSE LET card_h == Min((avail_h - (n - 1) * card_gap) \div n, Mil(800))
             IN  Drawn([i \in 1..n |->
                   LET y == CT + (i - 1) * (card_h + card_gap)
                   IN  Item(Take(bullets, n)[i], "stack",
                         add_card(Inches(MG), Inches(y),
                                  Inches(card_w), Inches(card_h)) \o
                         add_bullet_text(Inches(MG + Mil(250)), Inches(y + Mil(120)),
                                         Inches(card_w - Mil(500)),
                                         Inches(card_h - Mil(240))))])

\* slide_7a_two_cards: the left and the right card, side by side.
slide_7a_two_cards(bullets_l, bullets_r) ==
    LET card_w == (CW - GAP) \div 2
        card_h == Mil(5000)
    IN  Drawn(<<Item(0, "row", add_card_with_bullets(Inches(MG), Inches(CT),
                                                     Inches(card_w), Inches(card_h))),
                Item(0, "row", add_card_with_bullets(Inches(MG + card_w + GAP),
                                                     Inches(CT), Inches(card_w),
                                                     Inches(card_h)))>>)

\* One row of slide_7b: the divider above every row but the first, and the
\* text box of the bullet.
grid_row(bullet, group, left, j, row_start, row_h, card_w) ==
    LET y == row_start + (j - 1) * row_h
    IN  Item(bullet, group,
          (IF j > 1
           THEN <<Box(Inches(left + Mil(150)), Inches(y),
                      Inches(card_w - Mil(300)), Pt075)>>
           ELSE <<>>) \o
          add_bullet_text(Inches(left + Mil(250)), Inches(y + Mil(60)),
                          Inches(card_w - Mil(500)), Inches(row_h - Mil(80))))

\* slide_7b_grid_table: the bullets of each side as rows of its card; the row
\* height comes from the left side, row_h = (card_h - 1.00) / max(len, 1).
slide_7b_grid_table(bullets_l, bullets_r) ==
    LET card_w == (CW - GAP) \div 2
        card_h == Mil(5000)
        row_start == CT + Mil(800)
        row_h == (card_h - Mil(1000)) \div Max(Len(bullets_l), 1)
        rx == MG + card_w + GAP
    IN  Drawn([j \in 1..Len(bullets_l) |->
                 grid_row(bullets_l[j], "left", MG, j, row_start, row_h, card_w)] \o
              [j \in 1..Len(bullets_r) |->
                 grid_row(bullets_r[j], "right", rx, j, row_start, row_h, card_w)])

\* slide_8a_timeline: step_w = CW / n; per step the circle, the title and the
\* bullets of its column.
slide_8a_timeline(all_steps) ==
    LET steps == Take(all_steps, 4)
        n == Len(steps)
        line_y == Mil(2870)
    IN  IF n = 0 THEN DividedByZero
        ELSE LET step_w == CW \div n
             IN  Drawn([i \in 1..n |->
                   LET col_left == MG + (i - 1) * step_w
                       cx == col_left + step_w \div 2 - Mil(250)
                   IN  Item(steps[i], "row",
                         add_circle(Inches(cx), Inches(line_y - Mil(100)), In(500)) \o
                         add_bullet_text(Inches(col_left), In(3400),
                                         Inches(step_w), In(500)) \o
                         add_bullet_text(Inches(col_left), In(4000),
                                         Inches(step_w), In(2800)))])

\* slide_8b_step_cards: card_h = min((5.00 - (n - 1) * gap) / n, 1.10); per
\* step the card, the title, the joined bullets and the circle.
slide_8b_step_cards(all_steps) ==
    LET steps == Take(all_steps, 4)
        n == Len(steps)
        card_gap == Mil(200)
    IN  IF n = 0 THEN DividedByZero
        ELSE LET card_h == Min((Mil(5000) - (n - 1) * card_gap) \div n, Mil(1100))
             IN  Drawn([i \in 1..n |->
                   LET y == CT + (i - 1) * (card_h + card_gap)
                   IN  Item(steps[i], "stack",
                         add_card(Inches(MG + Mil(650)), Inches(y),
                                  Inches(CW - Mil(650)), Inches(card_h)) \o
                         add_bullet_text(Inches(MG + Mil(850)), Inches(y + Mil(100)),
                                         Inches(CW - Mil(1100)), In(350)) \o
                         add_bullet_text(Inches(MG + Mil(850)), Inches(y + Mil(420)),
                                         Inches(CW - Mil(1100)),
                                         Inches(card_h - Mil(520))) \o
                         add_circle(Inches(MG), Inches(y + card_h \div 2 - Mil(250)),
                                    In(500)))])

\* slide_10_closing_cta: the first three cards, each a third of the row wide.
slide_10_closing_cta(all_cards) ==
    LET cards == Take(all_cards, 3)
        card_w == (CW - 2 * GAP) \div 3
        card_top == Mil(2300)
        card_h == Mil(4500)
    IN  Drawn([i \in 1..Len(cards) |->
          LET x == MG + (i - 1) * (card_w + GAP)
          IN  Item(cards[i], "row",
                add_card_with_bullets(Inches(x), Inches(card_top),
                                      Inches(card_w), Inches(card_h)))])

\* The item loop of the builder of a kind and variant, on the lists of the
\* slide's dict: items is "cards", "bullets", "steps" or left's "bullets",
\* right is right's "bullets".
ItemLoop(kind, variant, items, right) ==
    CASE kind = 2 /\ variant # "B" -> slide_2a_dot_badge_rows(items)
      [] kind = 2 /\ variant = "B" -> slide_2b_left_accent_cards(items)
      [] kind = 3 /\ variant # "B" -> slide_3a_three_cards_row(items)
      [] kind = 3 /\ variant = "B" -> slide_3b_four_cards_row(items)
      [] kind = 5 /\ variant # "B" -> slide_5a_grid_badges(items)
      [] kind = 5 /\ variant = "B" -> slide_5b_stat_columns(items)
      [] kind = 6 /\ variant = "B" -> slide_6b_cards_banner(items)
      [] kind = 7 /\ variant # "B" -> slide_7a_two_cards(items, right)
      [] kind = 7 /\ variant = "B" -> slide_7b_grid_table(items, right)
      [] kind = 8 /\ variant # "B" -> slide_8a_timeline(items)
      [] kind = 8 /\ variant = "B" -> slide_8b_step_cards(items)
      [] kind = 10 -> slide_10_closing_cta(items)
      [] OTHER -> Drawn(<<>>)

\* The picture or placeholder of the builder of a kind and variant.
ImageOf(kind, variant, image_bytes) ==
    CASE kind = 1 -> add_side_image(image_bytes, "left", SIDE_W, SIDE_H)
      [] kind = 4 /\ variant # "B" -> add_square_image(image_bytes, MG, CT, IMG_SZ)
      [] kind = 4 /\ variant = "B" ->
            add_square_image(image_bytes, IMG_RX, IMG_TOP, IMG_SZ)
      [] kind = 6 /\ variant # "B" -> add_square_image(image_bytes, MG, CT, Mil(4500))
      [] kind = 6 /\ variant = "B" ->
            add_square_image(image_bytes, IMG_RX, IMG_TOP, Mil(4500))
      [] kind = 9 -> add_square_image(image_bytes, IMG_RX, IMG_TOP, IMG_SZ)
      [] OTHER -> NoImage

\* pptx.util.Pt(5): int(5 * 12700)
Pt5 == 63500
\* add_section_title with its defaults: a text box across the content width.
add_section_title == <<Box(Inches(MG), Inches(MG), Inches(CW), In(900))>>
\* The dark banner along the bottom of slides 6A and 6B.
stat_banner == <<Box(0, Inches(SH - Mil(1100)), Inches(SW), In(1100))>>

\* The shapes a builder draws whatever the lists of its slide hold, besides
\* the image and the page indicator. Slide 1 is taken with a subtitle.
FixedShapes(kind, variant) ==
    CASE kind = 1 ->
            LET text_left == SIDE_W + Mil(1000)
                text_w == SW - text_left - Mil(800)
            IN  <<Box(Inches(text_left), In(2400), In(2800), In(80)),
                  Box(Inches(text_left), In(2700), Inches(text_w), In(2600)),
                  Box(Inches(text_left), In(5700), Inches(text_w), In(800))>>
      [] kind = 4 /\ variant # "B" ->
            add_section_title \o
            add_bullet_text(Inches(MG + IMG_SZ + GAP), Inches(CT),
                            Inches(TXT_BW), In(5000))
      [] kind = 4 /\ variant = "B" ->
            add_section_title \o
            add_bullet_text(Inches(MG), Inches(CT), Inches(TXT_BW), In(5000))
      [] kind = 6 /\ variant # "B" ->
            LET txt_x == MG + Mil(4500) + GAP
                txt_w == SW - txt_x - MG
                bullet_h == SH - Mil(1100) - CT - Mil(200)
            IN  add_section_title \o
                add_bullet_text(Inches(txt_x), Inches(CT), Inches(txt_w),
                                Inches(bullet_h)) \o
                stat_banner
      [] kind = 6 /\ variant = "B" -> add_section_title \o stat_banner
      [] kind = 7 /\ variant = "B" ->
            LET card_w == (CW - GAP) \div 2
                rx == MG + card_w + GAP
            IN  add_section_title \o
                <<Box(Inches(MG), Inches(CT), Inches(card_w), In(5000)),
                  Box(Inches(MG + Mil(250)), Inches(CT + Mil(200)),
                      Inches(card_w - Mil(500)), In(500)),
                  Box(Inches(rx), Inches(CT), Inches(card_w), In(5000)),
                  Box(Inches(rx + Mil(250)), Inches(CT + Mil(200)),
                      Inches(card_w - Mil(500)), In(500))>>
      [] kind = 8 /\ variant # "B" ->
            add_section_title \o
            <<Box(Inches(MG + Mil(400)), In(2870), Inches(CW - Mil(800)), In(60))>>
      [] kind = 9 /\ variant # "B" ->
            add_section_title \o
            <<Box(Inches(MG), Inches(CT), Inches(TXT_BW), In(1500))>> \o
            add_bullet_text(Inches(MG), Inches(CT + Mil(2200)),
                            Inches(TXT_BW), In(2800))
      [] kind = 9 /\ variant = "B" ->
            add_section_title \o
            <<Box(Inches(MG), Inches(CT + Mil(100)), Pt5, In(1800)),
              Box(Inches(MG + Mil(300)), Inches(CT),
                  Inches(TXT_BW - Mil(300)), In(2000))>> \o
            add_bullet_text(Inches(MG), Inches(CT + Mil(2500)),
                            Inches(TXT_BW), In(2500))
      [] kind = 10 ->
            <<Box(In(2100), Inches(MG), Inches(SW - 2 * Mil(2100)), In(1200))>> \o
            add_accent_line(Inches((SW - Mil(3000)) \div 2), In(1850), In(3000))
      [] OTHER -> add_section_title

(***************************************************************************)
(* The builders                                                            *)
(***************************************************************************)
\* One slide builder, slide_<kind><variant>_...(prs, data, image_bytes), run
\* with the colour globals G. The slide is added to the deck by _new_slide
\* before anything else is drawn, so a builder that raises leaves an unfinished
\* slide behind. data says which fields the slide's dict has.
Builder(kind, variant, data, image_bytes, G) ==
    LET fresh == [kind |-> kind, variant |-> variant,
                  colors |-> [n \in UsedColors(kind, variant) |-> G[n]],
                  image |-> "none", image_label |-> "", image_box |-> NoImage.box,
                  shapes |-> <<>>, items |-> <<>>, number |-> <<>>,
                  number_box |-> NoImage.box,
                  complete |-> FALSE]
        img == ImageOf(kind, variant, image_bytes)
        drawn == IF kind \in ImageSlides
                 THEN [fresh EXCEPT !.image = add_image(image_bytes),
                                    !.image_label = img.label,
                                    !.image_box = img.box]
                 ELSE fresh
        loop == ItemLoop(kind, variant, data.items, data.right)
    IN  IF ~data.title
        THEN [slide |-> fresh, error |-> KeyError(kind, "title")]
        ELSE IF kind \in ImageSlides /\ image_bytes = "junk"
        THEN [slide |-> fresh, error |-> ImageError(kind)]
        ELSE IF ~data.body
        THEN [slide |-> drawn, error |-> KeyError(kind, BodyField(kind))]
        ELSE IF loop.zero
        THEN [slide |-> drawn, error |-> ZeroDivisionError(kind)]
        ELSE [slide |-> [drawn EXCEPT
                           !.shapes = FixedShapes(kind, variant),
                           !.items = loop.items,
                           !.number = add_slide_number(kind, TOTAL_SLIDES),
                           !.number_box = SlideNumberBox,
                           !.complete = TRUE],
              error |-> NoError]

\* designs.get("<k>", "B"): a missing key picks builder B.
VariantDefaultB(designs, k) ==
    IF k \notin VariantSlides THEN "-"
    ELSE IF DictGet(designs, KeyOf[k], "B") = "B" THEN "B" ELSE "A"

\* The dispatch of generate_ppt: designs.get("<k>", "A") == "B" picks builder B.
Variant(designs, k) ==
    IF k \notin VariantSlides THEN "-"
    ELSE IF DictGet(designs, KeyOf[k], "A") = "B" THEN "B" ELSE "A"

\* prs.save(buf): the file is a presentation part followed by one part per
\* slide, in deck order.
Serialize(deck) ==
    <<[part |-> "presentation", slides |-> Len(deck)]>> \o
    [i \in 1..Len(deck) |-> [part |-> "slide", slide |-> deck[i]]]

(***************************************************************************)
(* safe_filename. A text is a sequence of characters.                      *)
(***************************************************************************)
\* Characters that \w matches: the letters and digits used here and "_".
WordChars == {"a", "e", "i", "n", "o", "p", "r", "s", "t", "7", "_"}
\* Characters that \s matches.
Whitespace == {" ", "\t", "\n", "\r"}
\* The length text[:50] cuts the name to.
FilenameLimit == 50
\* The name given when nothing is left of the text.
Presentation == <<"p", "r", "e", "s", "e", "n", "t", "a", "t", "i", "o", "n">>

\* text.replace(old, new) for single characters.
replace(text, old, new) ==
    [i \in 1..Len(text) |-> IF text[i] = old THEN new ELSE text[i]]

\* re.sub("[^a-z0-9\s-]", "", text): the underscore is removed too.
sub_not_alnum_space_hyphen(text) ==
    SelectSeq(text, LAMBDA c : c \in (WordChars \ {"_"}) \cup Whitespace \cup {"-"})

\* re.sub(r"[^\w\s-]", "", text)
sub_not_word_space_hyphen(text) ==
    SelectSeq(text, LAMBDA c : c \in WordChars \cup Whitespace \cup {"-"})

\* re.sub(r"\s+", "_", text): every maximal run of whitespace becomes one "_".
sub_whitespace_runs(text) ==
    LET out == [i \in 1..Len(text) |->
                  IF text[i] \notin Whitespace THEN text[i]
                  ELSE IF i > 1 /\ text[i - 1] \in Whitespace THEN ""
                  ELSE "_"]
    IN  SelectSeq(out, LAMBDA c : c # "")

\* safe_filename without the cut to 50 characters.
safe_filename_uncut(text) ==
    LET spaced == replace(replace(text, "\n", " "), "\r", " ")
        kept == sub_not_word_space_hyphen(spaced)
        joined == sub_whitespace_runs(kept)
    IN  IF joined = <<>> THEN Presentation ELSE joined

\* safe_filename that returns text[:50] as it is, empty or not.
safe_filename_no_default(text) ==
    LET spaced == replace(replace(text, "\n", " "), "\r", " ")
        kept == sub_not_word_space_hyphen(spaced)
        joined == sub_whitespace_runs(kept)
    IN  Take(joined, FilenameLimit)

\* safe_filename(text)
safe_filename(text) ==
    LET spaced == replace(replace(text, "\n", " "), "\r", " ")
        kept == sub_not_word_space_hyphen(spaced)
        joined == sub_whitespace_runs(kept)
        cut == Take(joined, FilenameLimit)
    IN  IF cut = <<>> THEN Presentation ELSE cut

(***************************************************************************)
(* Responses of the handler and the download buffer                        *)
(***************************************************************************)
NoResponse == [kind |-> "none", status |-> 0, body |-> "",
               payload |-> <<>>, error |-> NoError]
\* redirect(location)
Redirect(location) == [NoResponse EXCEPT !.kind = "redirect", !.status = 302,
                                         !.body = location]
\* jsonify({"error": ...}) without the status: Flask answers 200.
ContentFailureNoStatus ==
    [NoResponse EXCEPT !.kind = "json", !.status = 200,
       !.body = "Failed to generate presentation content. Please try again."]
\* jsonify({"error": ...}), 500
ContentFailure ==
    [NoResponse EXCEPT !.kind = "json", !.status = 500,
       !.body = "Failed to generate presentation content. Please try again."]
\* An exception that leaves generate_ppt: Flask answers 500.
Unhandled(error) == [NoResponse EXCEPT !.kind = "exception", !.status = 500,
                                       !.error = error]
\* send_file(buf, as_attachment=True, ...): the bytes from buf's position on.
send_file(buf) ==
    [NoResponse EXCEPT !.kind = "file", !.status = 200,
                       !.payload = SubSeq(buf.data, buf.pos + 1, Len(buf.data))]

EmptyBuf == [data |-> <<>>, pos |-> 0]
\* BytesIO.write at the position, as prs.save does on the empty buffer.
BufWrite(buf, bytes) == [data |-> SubSeq(buf.data, 1, buf.pos) \o bytes,
                         pos |-> buf.pos + Len(bytes)]
\* buf.seek(0) without the effect.
seek_nothing(buf, pos) == buf
\* buf.seek(pos)
seek(buf, pos) == [buf EXCEPT !.pos = pos]
\* buf.getvalue(): the whole contents, wherever the position is.
getvalue(buf) == buf.data

(***************************************************************************)
(* The environment of one request: what the session, the text service, the *)
(* image service and the database do during it                             *)
(***************************************************************************)
\* The most requests generate_image can post.
MaxPosts == NumEndpoints * NumAttempts
\* The image service answering every request the same way.
ConstRun(resp) == [i \in 1..MaxPosts |-> resp]

\* The entries of a list of cards, bullets or steps, named by their places.
Entries(n) == [i \in 1..n |-> i]
\* The dict of one slide: whether it has "title", the field its builder reads
\* next, and a non-empty "image_prompt"; the list it holds has three entries.
SlideData(title, body, image_prompt) ==
    [title |-> title, body |-> body, image_prompt |-> image_prompt,
     items |-> Entries(3), right |-> Entries(3)]
\* The dict d with n entries in its list of cards, bullets or steps (the
\* bullets of "left" on slide 7) and m bullets in "right".
WithItems(d, n, m) == [d EXCEPT !.items = Entries(n), !.right = Entries(m)]

\* The content document: "theme" (Absent when the key is missing),
\* "slide_designs", "slides" keyed by each entry's "slide", and whether
\* "title_image_prompt" is non-empty.
Doc(theme, designs, slides, title_image_prompt) ==
    [theme |-> theme, designs |-> designs, slides |-> slides,
     title_image_prompt |-> title_image_prompt]

\* logged: "user" is in the session. text: the outcome of each call of the text
\* service. has_key: HF_API_KEY is set. img: the image service's answers while
\* the image of each slide is generated. db: what the history insert meets.
Scenario(logged, text, doc, has_key, img, db) ==
    [logged |-> logged, text |-> text, doc |-> doc, has_key |-> has_key,
     img |-> img, db |-> db]

DbOutcomes == {"ok", "no_connection", "execute_raises", "commit_raises"}
\* The four themes, the empty string, a name that is no theme, and no "theme".
ThemeInputs == DOMAIN THEMES \cup {"", "sunset", Absent}

\* How many slides of one document may be absent or lack a field.
MaxDefects == 1

NoScenario == Scenario(FALSE, <<>>, Doc(Absent, <<>>, <<>>, FALSE), FALSE, <<>>, "ok")

FirstTry == <<"json", "json">>
AllA == [k \in DesignKeys |-> "A"]
Pictures == [k \in ImageSlides |-> ConstRun(RespPicture)]
\* Slides 2..10 complete; prompts[k] says whether slide k has an image prompt.
NominalSlides(prompts) ==
    [k \in ContentSlides |-> SlideData(TRUE, TRUE, k \in ImageSlides /\ prompts[k])]
AllPrompts == [k \in ImageSlides |-> TRUE]
NoPrompts == [k \in ImageSlides |-> FALSE]

\* slide_designs: every total map into {A, B}, and every map that has only
\* some of the keys, all with the value B or all with the unknown value C.
DesignMaps ==
    [DesignKeys -> {"A", "B"}] \cup
    UNION {[D -> {v}] : D \in SUBSET DesignKeys, v \in {"B", "C"}}

DesignScenarios ==
    {Scenario(TRUE, FirstTry, Doc("navy", d, NominalSlides(AllPrompts), TRUE),
              TRUE, Pictures, "ok") : d \in DesignMaps}

\* Any set of the slides 2..10 present, each complete.
PresenceScenarios ==
    {Scenario(TRUE, FirstTry,
              Doc("moss", AllA, [k \in D |-> SlideData(TRUE, TRUE, k \in ImageSlides)],
                  TRUE),
              TRUE, Pictures, "ok") : D \in SUBSET ContentSlides}

\* At most MaxDefects slides absent, without title or without body ...
DefectMaps ==
    UNION {[K -> {"absent", "title", "body"}] :
             K \in {K \in SUBSET ContentSlides : Cardinality(K) <= MaxDefects}}
SlidesWith(defects, prompts) ==
    [k \in {j \in ContentSlides : DictGet(defects, j, "") # "absent"} |->
        SlideData(DictGet(defects, k, "") # "title",
                  DictGet(defects, k, "") # "body",
                  k \in ImageSlides /\ prompts[k])]
\* ... together with each image slide having no prompt, a picture, or a long
\* body that is no picture.
ImageCases ==
    {[prompt |-> FALSE, run |-> ConstRun(RespTimeout)]} \cup
    {[prompt |-> TRUE, run |-> ConstRun(x)] : x \in {RespPicture, RespBigText}}
DefectScenarios ==
    {Scenario(TRUE, FirstTry,
              Doc("nature", AllA,
                  SlidesWith(f, [k \in ImageSlides |-> c[k].prompt]), c[1].prompt),
              TRUE, [k \in ImageSlides |-> c[k].run], "ok") :
        f \in DefectMaps, c \in [ImageSlides -> ImageCases]}

\* The collaborators: every outcome of the two text calls, every theme input,
\* every outcome of the insert, and the image service without a key or
\* answering each request in one of its ways.
ImageServices ==
    {[has_key |-> FALSE, resp |-> RespPicture]} \cup
    {[has_key |-> TRUE, resp |-> x] : x \in Responses}
ServiceScenarios ==
    {Scenario(TRUE, t, Doc(th, AllA, NominalSlides(AllPrompts), TRUE),
              i.has_key, [k \in ImageSlides |-> ConstRun(i.resp)], db) :
        t \in [1..2 -> TextOutcomes], th \in ThemeInputs,
        i \in ImageServices, db \in DbOutcomes}
    \cup {Scenario(FALSE, FirstTry, Doc("navy", AllA, NominalSlides(AllPrompts), TRUE),
                   TRUE, Pictures, "ok")}

\* The longest list of cards, bullets or steps a slide is given.
MaxItems == 6
\* One slide with a list of 0..MaxItems entries (slide 7: each side), built
\* by its builder A or B, the other slides as usual; with every image
\* prompt and a picture for each, or without any image prompt.
ItemCases ==
    {[k |-> k, v |-> v, n |-> n, m |-> m] :
        k \in ContentSlides, v \in {"A", "B"}, n \in 0..MaxItems, m \in 0..MaxItems}
ItemScenarios ==
    {Scenario(TRUE, FirstTry,
              Doc("indigo", [key \in {KeyOf[c.k]} \ {"10"} |-> c.v],
                  [NominalSlides(p) EXCEPT ![c.k] = WithItems(@, c.n, c.m)],
                  p[1]),
              TRUE, Pictures, "ok") :
        c \in {c \in ItemCases : /\ c.k = 7 \/ c.m = 3
                                 /\ c.k # TOTAL_SLIDES \/ c.v = "A"},
        p \in {AllPrompts, NoPrompts}}

\* Any set of the slides 1..10 with a non-empty image prompt (slide 1: the
\* title_image_prompt), a picture for every request.
PromptScenarios ==
    {Scenario(TRUE, FirstTry,
              Doc("indigo", AllA,
                  [k \in ContentSlides |-> SlideData(TRUE, TRUE, k \in P)], 1 \in P),
              TRUE, Pictures, "ok") : P \in SUBSET (1..TOTAL_SLIDES)}

\* The families of scenarios, by name.
Family(name) ==
    CASE name = "designs" -> DesignScenarios
      [] name = "presence" -> PresenceScenarios
      [] name = "defects" -> DefectScenarios
      [] name = "services" -> ServiceScenarios
      [] name = "items" -> ItemScenarios
      [] name = "prompts" -> PromptScenarios
      [] OTHER -> {}
Families == {"designs", "presence", "defects", "services", "items", "prompts"}

\* Two requests at a time: documents that differ in the theme only.
ThemedScenarios ==
    {Scenario(TRUE, FirstTry, Doc(th, AllA, NominalSlides(NoPrompts), FALSE),
              TRUE, Pictures, "ok") : th \in {"indigo", "navy", "sunset"}}

(***************************************************************************)
(* State                                                                   *)
(***************************************************************************)
Reqs == {1, 2}
\* How many apply_theme calls one run of the server is followed for.
MaxRequests == 3
\* No safe_filename call yet.
NoName == [pc |-> "idle", raw_title |-> <<>>, filename |-> <<>>, again |-> <<>>]

\* The titles safe_filename is given: up to MaxHead characters, a run of one
\* character about as long as the limit, and up to MaxTail characters.
MaxHead == 2
MaxTail == 1
TitleChars == {"a", "7", "_", "-", " ", "\t", "\n", "\r", "!", "."}
RunChars == {"a", " ", "!"}
RunLengths == {0, FilenameLimit - 1, FilenameLimit, FilenameLimit + 1}
Texts(n) == UNION {[1..m -> TitleChars] : m \in 0..n}
Rep(c, n) == [i \in 1..n |-> c]
Titles ==
    {head \o Rep(c, n) \o tail :
        head \in Texts(MaxHead), c \in RunChars, n \in RunLengths,
        tail \in Texts(MaxTail)}

\* The presentations table: at most MaxRecords rows, row i with id i; each
\* row has the user_email of its owner and its file_data.
MaxRecords == 2
Emails == {"ann@x", "bob@x"}
Tables ==
    UNION {[1..n -> [user_email : Emails, file_data : {<<"pptx", "a">>, <<"pptx", "b">>}]] :
             n \in 0..MaxRecords}
\* One /download/<pres_id> request: whether MySQL is reachable, whether "user"
\* is in the session, the session's "email", the id asked for, the table, the
\* statements run, and the response.
DownloadRequest(connected, logged, email, pres_id, table) ==
    [pc |-> "wrapper", connected |-> connected, logged |-> logged, email |-> email,
     pres_id |-> pres_id, table |-> table, row |-> <<>>, log |-> <<>>,
     resp |-> NoResponse]
NoDownload == DownloadRequest(FALSE, FALSE, "", 0, <<>>)
DownloadRequests ==
    {DownloadRequest(c, l, e, i, t) :
        c \in BOOLEAN, l \in BOOLEAN, e \in Emails, i \in 0..(MaxRecords + 1),
        t \in Tables}

\* One generate_image call: whether HF_API_KEY is set, and the answer to each
\* request it may post.
ImageCall(has_key, run) ==
    [pc |-> "call", has_key |-> has_key, run |-> run, result |-> None,
     posts |-> <<>>, sleeps |-> 0]
NoImaging == [ImageCall(FALSE, <<>>) EXCEPT !.pc = "idle"]
\* The answers a run is drawn from: a picture, a small body that is none, the
\* model loading, the two auth errors, a server error, a timeout, another
\* exception.
ImageAnswers == {RespPicture, RespSmallText, RespLoading, RespUnauthorized,
                 RespForbidden, RespServerError, RespTimeout, RespException}
ImageCalls ==
    {ImageCall(TRUE, run) : run \in [1..MaxPosts -> ImageAnswers]} \cup
    {ImageCall(FALSE, ConstRun(x)) : x \in Responses} \cup
    {ImageCall(TRUE, ConstRun(x)) : x \in Responses}

VARIABLES
    colors,       \* the seven colour globals of the module
    db_log,       \* the statements the history database has run, in order
    pc,           \* per request: where generate_ppt stands
    env,          \* per request: its scenario
    text_calls,   \* per request: calls of the text service
    images,       \* per request: the dict images
    image_log,    \* per request: per generated image, the requests posted
    deck,         \* per request: the slides of prs
    sn,           \* per request: the slide built next
    buf,          \* per request: the BytesIO buffer
    file_bytes,   \* per request: the bytes handed to the insert
    resp,         \* per request: the response
    theme_log,    \* the apply_theme calls so far: the name and the globals after
    image_calls,  \* per request: the slides generate_image was called for
    naming,       \* one safe_filename call: its argument and its result
    download,     \* one /download/<pres_id> request
    imaging       \* one generate_image call: its inputs and what it did

vars == <<colors, db_log, pc, env, text_calls, images, image_log, deck, sn,
          buf, file_bytes, resp, theme_log, image_calls, naming, download,
          imaging>>

Init ==
    /\ colors = DesignTokens
    /\ db_log = <<>>
    /\ pc = [r \in Reqs |-> "idle"]
    /\ env = [r \in Reqs |-> NoScenario]
    /\ text_calls = [r \in Reqs |-> 0]
    /\ images = [r \in Reqs |-> <<>>]
    /\ image_log = [r \in Reqs |-> <<>>]
    /\ deck = [r \in Reqs |-> <<>>]
    /\ sn = [r \in Reqs |-> 0]
    /\ buf = [r \in Reqs |-> EmptyBuf]
    /\ file_bytes = [r \in Reqs |-> <<>>]
    /\ resp = [r \in Reqs |-> NoResponse]
    /\ theme_log = <<>>
    /\ image_calls = [r \in Reqs |-> <<>>]
    /\ naming = NoName
    /\ download = NoDownload
    /\ imaging = NoImaging

(***************************************************************************)
(* generate_ppt, step by step                                              *)
(***************************************************************************)
\* Whether the image of slide k has a non-empty prompt: title_image_prompt for
\* slide 1, slides.get(k, {}).get("image_prompt", "") for the others.
HasPrompt(doc, k) ==
    IF k = 1 THEN doc.title_image_prompt
    ELSE k \in DOMAIN doc.slides /\ doc.slides[k].image_prompt

\* The request arrives: without "user" in the session it is redirected to
\* /login; otherwise the handler goes on to the content.
Request(r, S) ==
    /\ pc[r] = "idle"
    /\ \E s \in S :
        /\ env' = [env EXCEPT ![r] = s]
        /\ IF s.logged
           THEN /\ pc' = [pc EXCEPT ![r] = "content"]
                /\ resp' = resp
           ELSE /\ pc' = [pc EXCEPT ![r] = "done"]
                /\ resp' = [resp EXCEPT ![r] = Redirect("/login")]
    /\ UNCHANGED <<theme_log, image_calls, naming, colors, db_log, text_calls,
                   images, image_log, deck, sn, buf, file_bytes,
                   download, imaging>>

\* content = generate_slide_content(user_prompt); None ends the request with
\* the 500 answer.
Content(r) ==
    /\ pc[r] = "content"
    /\ LET c == generate_slide_content(env[r].text)
       IN  /\ text_calls' = [text_calls EXCEPT ![r] = c.calls]
           /\ IF c.ok
              THEN /\ pc' = [pc EXCEPT ![r] = "theme"]
                   /\ resp' = resp
              ELSE /\ pc' = [pc EXCEPT ![r] = "done"]
                   /\ resp' = [resp EXCEPT ![r] = ContentFailure]
    /\ UNCHANGED <<theme_log, image_calls, naming, colors, db_log, env, images,
                   image_log, deck, sn, buf, file_bytes,
                   download, imaging>>

\* apply_theme with the first `global` statement only: the assignments to
\* SOFT_CREAM and the two tints bind locals, and the globals keep their values.
ThemeFirstGlobalsOnly(r) ==
    /\ pc[r] = "theme"
    /\ LET name == FieldGet(env[r].doc.theme, "indigo")
           declared == {"DEEP_NAVY", "ROYAL_BLUE", "WARM_CORAL", "TEAL"}
       IN  /\ colors' = [n \in ColorNames |->
                           IF n \in declared THEN apply_theme(name)[n] ELSE colors[n]]
           /\ theme_log' = Append(theme_log, [name |-> name, colors |-> colors'])
    /\ pc' = [pc EXCEPT ![r] = "images"]
    /\ UNCHANGED <<image_calls, naming, db_log, env, text_calls, images,
                   image_log, deck, sn, buf, file_bytes, resp,
                   download, imaging>>

\* apply_theme(content.get("theme", "indigo")) assigns the colour globals; the
\* empty Presentation, slides and designs are set up.
Theme(r) ==
    /\ pc[r] = "theme"
    /\ LET name == FieldGet(env[r].doc.theme, "indigo")
       IN  /\ colors' = apply_theme(name)
           /\ theme_log' = Append(theme_log, [name |-> name, colors |-> colors'])
    /\ pc' = [pc EXCEPT ![r] = "images"]
    /\ UNCHANGED <<image_calls, naming, db_log, env, text_calls, images,
                   image_log, deck, sn, buf, file_bytes, resp,
                   download, imaging>>

Range(seq) == {seq[i] : i \in DOMAIN seq}

\* An image for each of the slides 1, 4, 6 and 9, whatever its prompt.
EveryImageSlide(doc) == <<1, 4, 6, 9>>

\* The slides generate_image is called for, in order: slide 1 when
\* title_image_prompt is non-empty, then each sn in [4, 6, 9] whose
\* "image_prompt" is non-empty.
PromptedSlides(doc) == SelectSeq(<<1, 4, 6, 9>>, LAMBDA k : HasPrompt(doc, k))

\* The images of slides 1, 4, 6 and 9, each generated when its prompt is
\* non-empty.
Images(r) ==
    /\ pc[r] = "images"
    /\ LET wanted == {k \in ImageSlides : k \in Range(PromptedSlides(env[r].doc))}
           made == [k \in wanted |-> generate_image(env[r].has_key, env[r].img[k])]
       IN  /\ images' = [images EXCEPT ![r] = [k \in wanted |-> made[k].result]]
           /\ image_log' = [image_log EXCEPT ![r] =
                              [k \in wanted |-> [posts |-> made[k].posts,
                                                 sleeps |-> made[k].sleeps]]]
    /\ image_calls' = [image_calls EXCEPT ![r] = PromptedSlides(env[r].doc)]
    /\ pc' = [pc EXCEPT ![r] = "build"]
    /\ sn' = [sn EXCEPT ![r] = 1]
    /\ UNCHANGED <<theme_log, naming, colors, db_log, env, text_calls, deck,
                   buf, file_bytes, resp,
                   download, imaging>>

\* The slide after slide k in the order generate_ppt builds them.
NextSlide(k) == k + 1

\* slides.get(k) in place of slides[k]: a missing slide is passed over.
BuildStepSkipsMissing(k, doc, imgs, G) ==
    IF k # 1 /\ k \notin DOMAIN doc.slides
    THEN [added |-> <<>>, error |-> NoError]
    ELSE LET data == IF k = 1 THEN SlideData(TRUE, TRUE, FALSE) ELSE doc.slides[k]
             b == Builder(k, Variant(doc.designs, k), data, DictGet(imgs, k, None), G)
         IN  [added |-> <<b.slide>>, error |-> b.error]

\* One builder call of generate_ppt: slide 1 from the title, slides 2..9 by
\* the design of each, slide 10; the image is images.get(k). slides[k] raises
\* KeyError(k) before the builder is entered, and nothing is added; an
\* exception in the builder leaves its slide unfinished in the deck.
BuildStep(k, doc, imgs, G) ==
    IF k # 1 /\ k \notin DOMAIN doc.slides
    THEN [added |-> <<>>, error |-> KeyError(k, KeyOf[k])]
    ELSE LET data == IF k = 1 THEN SlideData(TRUE, TRUE, FALSE) ELSE doc.slides[k]
             b == Builder(k, Variant(doc.designs, k), data, DictGet(imgs, k, None), G)
         IN  [added |-> <<b.slide>>, error |-> b.error]

\* The builder calls in order; an exception ends the request with Flask's 500.
Build(r) ==
    /\ pc[r] = "build"
    /\ LET k == sn[r]
           b == BuildStep(k, env[r].doc, images[r], colors)
       IN  /\ deck' = [deck EXCEPT ![r] = @ \o b.added]
           /\ IF b.error # NoError
              THEN /\ pc' = [pc EXCEPT ![r] = "done"]
                   /\ resp' = [resp EXCEPT ![r] = Unhandled(b.error)]
                   /\ sn' = sn
              ELSE /\ pc' = [pc EXCEPT ![r] =
                               IF k = TOTAL_SLIDES THEN "save" ELSE "build"]
                   /\ sn' = [sn EXCEPT ![r] = NextSlide(k)]
                   /\ resp' = resp
    /\ UNCHANGED <<theme_log, image_calls, naming, colors, db_log, env,
                   text_calls, images, image_log, buf, file_bytes,
                   download, imaging>>

\* buf = BytesIO(); prs.save(buf); buf.seek(0)
Save(r) ==
    /\ pc[r] = "save"
    /\ buf' = [buf EXCEPT ![r] = seek(BufWrite(EmptyBuf, Serialize(deck[r])), 0)]
    /\ pc' = [pc EXCEPT ![r] = "history"]
    /\ UNCHANGED <<theme_log, image_calls, naming, colors, db_log, env,
                   text_calls, images, image_log, deck, sn, file_bytes, resp,
                   download, imaging>>

\* The statements of the history insert that complete: get_db() without a
\* connection returns (None, None) and cursor.execute raises; execute or
\* commit may raise; every exception is swallowed.
HistoryStatements(r, outcome, bytes) ==
    LET insert == [op |-> "insert", req |-> r, file_data |-> bytes]
        commit == [op |-> "commit", req |-> r, file_data |-> <<>>]
    IN  CASE outcome = "ok" -> <<insert, commit>>
          [] outcome = "commit_raises" -> <<insert>>
          [] OTHER -> <<>>

\* The insert without try/except: a failure ends the request with Flask's 500.
HistoryUnguarded(r) ==
    /\ pc[r] = "history"
    /\ file_bytes' = [file_bytes EXCEPT ![r] = getvalue(buf[r])]
    /\ db_log' = db_log \o HistoryStatements(r, env[r].db, getvalue(buf[r]))
    /\ IF env[r].db = "ok"
       THEN /\ pc' = [pc EXCEPT ![r] = "respond"]
            /\ resp' = resp
       ELSE /\ pc' = [pc EXCEPT ![r] = "done"]
            /\ resp' = [resp EXCEPT ![r] =
                          Unhandled([type |-> "DatabaseError", at |-> 0, key |-> ""])]
    /\ UNCHANGED <<theme_log, image_calls, naming, colors, env, text_calls,
                   images, image_log, deck, sn, buf,
                   download, imaging>>

\* file_bytes = buf.getvalue(), then the insert inside try/except.
History(r) ==
    /\ pc[r] = "history"
    /\ file_bytes' = [file_bytes EXCEPT ![r] = getvalue(buf[r])]
    /\ db_log' = db_log \o HistoryStatements(r, env[r].db, getvalue(buf[r]))
    /\ pc' = [pc EXCEPT ![r] = "respond"]
    /\ UNCHANGED <<theme_log, image_calls, naming, colors, env, text_calls,
                   images, image_log, deck, sn, buf, resp,
                   download, imaging>>

\* buf.seek(0); return send_file(buf, ...)
Respond(r) ==
    /\ pc[r] = "respond"
    /\ buf' = [buf EXCEPT ![r] = seek(@, 0)]
    /\ resp' = [resp EXCEPT ![r] = send_file(seek(buf[r], 0))]
    /\ pc' = [pc EXCEPT ![r] = "done"]
    /\ UNCHANGED <<theme_log, image_calls, naming, colors, db_log, env,
                   text_calls, images, image_log, deck, sn, file_bytes,
                   download, imaging>>

\* The request is cut off before generate_ppt returns (the client is gone, the
\* worker is stopped): nothing is answered and its locals are dropped.
Abort(r) ==
    /\ pc[r] \in {"content", "theme", "images", "build", "save", "history",
                  "respond"}
    /\ pc' = [pc EXCEPT ![r] = "aborted"]
    /\ text_calls' = [text_calls EXCEPT ![r] = 0]
    /\ images' = [images EXCEPT ![r] = <<>>]
    /\ image_log' = [image_log EXCEPT ![r] = <<>>]
    /\ image_calls' = [image_calls EXCEPT ![r] = <<>>]
    /\ deck' = [deck EXCEPT ![r] = <<>>]
    /\ sn' = [sn EXCEPT ![r] = 0]
    /\ buf' = [buf EXCEPT ![r] = EmptyBuf]
    /\ file_bytes' = [file_bytes EXCEPT ![r] = <<>>]
    /\ UNCHANGED <<theme_log, naming, colors, db_log, env, resp,
                   download, imaging>>

\* The steps of a request that has arrived.
generate_ppt(r) ==
    \/ Content(r)
    \/ Theme(r)
    \/ Images(r)
    \/ Build(r)
    \/ Save(r)
    \/ History(r)
    \/ Respond(r)
    \/ Abort(r)

\* One request, any scenario.
Next ==
    \/ \E f \in Families : Request(1, Family(f))
    \/ generate_ppt(1)
Spec == Init /\ [][Next]_vars

\* The server goes on to its next request: the locals of the request that
\* ended are gone, the module globals and the database stay as they are.
NextRequest(r) ==
    /\ pc[r] \in {"done", "aborted"}
    /\ Len(theme_log) < MaxRequests
    /\ pc' = [pc EXCEPT ![r] = "idle"]
    /\ env' = [env EXCEPT ![r] = NoScenario]
    /\ text_calls' = [text_calls EXCEPT ![r] = 0]
    /\ images' = [images EXCEPT ![r] = <<>>]
    /\ image_log' = [image_log EXCEPT ![r] = <<>>]
    /\ image_calls' = [image_calls EXCEPT ![r] = <<>>]
    /\ deck' = [deck EXCEPT ![r] = <<>>]
    /\ sn' = [sn EXCEPT ![r] = 0]
    /\ buf' = [buf EXCEPT ![r] = EmptyBuf]
    /\ file_bytes' = [file_bytes EXCEPT ![r] = <<>>]
    /\ resp' = [resp EXCEPT ![r] = NoResponse]
    /\ UNCHANGED <<colors, db_log, theme_log, naming,
                   download, imaging>>

\* One request after another, each with any of the themes.
NextSequence ==
    \/ Request(1, ThemedScenarios)
    \/ generate_ppt(1)
    \/ NextRequest(1)
SpecSequence == Init /\ [][NextSequence]_vars

\* Two requests served at once, on threads that share the colour globals.
NextThreads ==
    \E r \in Reqs : Request(r, ThemedScenarios) \/ generate_ppt(r)
SpecThreads == Init /\ [][NextThreads]_vars

\* A title is about to be turned into a file name, with no request under way.
InitFilename ==
    /\ colors = DesignTokens
    /\ db_log = <<>>
    /\ pc = [r \in Reqs |-> "idle"]
    /\ env = [r \in Reqs |-> NoScenario]
    /\ text_calls = [r \in Reqs |-> 0]
    /\ images = [r \in Reqs |-> <<>>]
    /\ image_log = [r \in Reqs |-> <<>>]
    /\ deck = [r \in Reqs |-> <<>>]
    /\ sn = [r \in Reqs |-> 0]
    /\ buf = [r \in Reqs |-> EmptyBuf]
    /\ file_bytes = [r \in Reqs |-> <<>>]
    /\ resp = [r \in Reqs |-> NoResponse]
    /\ theme_log = <<>>
    /\ image_calls = [r \in Reqs |-> <<>>]
    /\ naming \in {[NoName EXCEPT !.pc = "title", !.raw_title = t] : t \in Titles}
    /\ download = NoDownload
    /\ imaging = NoImaging

\* filename = safe_filename(raw_title)
Filename ==
    /\ naming.pc = "title"
    /\ naming' = [naming EXCEPT !.pc = "named",
                                !.filename = safe_filename(naming.raw_title)]
    /\ UNCHANGED <<colors, db_log, pc, env, text_calls, images, image_log, deck,
                   sn, buf, file_bytes, resp, theme_log, image_calls,
                   download, imaging>>

\* safe_filename applied to its own result.
FilenameAgain ==
    /\ naming.pc = "named"
    /\ naming' = [naming EXCEPT !.pc = "renamed",
                                !.again = safe_filename(naming.filename)]
    /\ UNCHANGED <<colors, db_log, pc, env, text_calls, images, image_log, deck,
                   sn, buf, file_bytes, resp, theme_log, image_calls,
                   download, imaging>>

NextFilename == Filename \/ FilenameAgain
SpecFilename == InitFilename /\ [][NextFilename]_vars

(***************************************************************************)
(* download_presentation                                                   *)
(***************************************************************************)
\* DB_ERROR_PAGE, 503
DbErrorPage == [NoResponse EXCEPT !.kind = "page", !.status = 503,
                                  !.body = "DB_ERROR_PAGE"]
\* An unbound name is read.
NameError(name) == [type |-> "NameError", at |-> 0, key |-> name]
\* cursor.fetchone() after SELECT filename, file_data FROM presentations WHERE
\* id=%s AND user_email=%s: the row as a sequence of its columns, or the
\* empty sequence for None.
fetchone(table, pres_id, email) ==
    IF pres_id \in DOMAIN table /\ table[pres_id].user_email = email
    THEN <<table[pres_id].file_data>>
    ELSE <<>>

request_vars == <<colors, db_log, pc, env, text_calls, images, image_log, deck, sn,
                  buf, file_bytes, resp, theme_log, image_calls, naming, imaging>>

\* A request for /download/<pres_id> arrives.
DownloadArrives ==
    /\ download = NoDownload
    /\ download' \in DownloadRequests
    /\ UNCHANGED request_vars

\* db_required: without a connection the error page is returned with 503 and
\* the view is not called.
DbRequired ==
    /\ download.pc = "wrapper"
    /\ download' = IF download.connected
                   THEN [download EXCEPT !.pc = "session"]
                   ELSE [download EXCEPT !.pc = "done", !.resp = DbErrorPage]
    /\ UNCHANGED request_vars

\* if "user" not in session: return redirect("/login")
DownloadSession ==
    /\ download.pc = "session"
    /\ download' = IF download.logged
                   THEN [download EXCEPT !.pc = "select"]
                   ELSE [download EXCEPT !.pc = "done", !.resp = Redirect("/login")]
    /\ UNCHANGED request_vars

\* The SELECT and row = cursor.fetchone(); if not row: redirect("/history").
DownloadSelect ==
    /\ download.pc = "select"
    /\ LET row == fetchone(download.table, download.pres_id, download.email)
       IN  download' =
             IF row = <<>>
             THEN [download EXCEPT !.pc = "done", !.log = Append(@, "select"),
                                   !.resp = Redirect("/history")]
             ELSE [download EXCEPT !.pc = "save", !.log = Append(@, "select"),
                                   !.row = row]
    /\ UNCHANGED request_vars

\* buf = BytesIO(); prs.save(buf): prs is neither a local of
\* download_presentation nor a global of the module, so reading it raises
\* NameError and Flask answers 500; the statements after it are never run.
DownloadSave ==
    /\ download.pc = "save"
    /\ download' = [download EXCEPT !.pc = "done",
                                    !.resp = Unhandled(NameError("prs"))]
    /\ UNCHANGED request_vars

download_presentation ==
    DownloadArrives \/ DbRequired \/ DownloadSession \/ DownloadSelect \/ DownloadSave
SpecDownload == Init /\ [][download_presentation]_vars

(***************************************************************************)
(* generate_image on its own                                               *)
(***************************************************************************)
InitImage ==
    /\ colors = DesignTokens
    /\ db_log = <<>>
    /\ pc = [r \in Reqs |-> "idle"]
    /\ env = [r \in Reqs |-> NoScenario]
    /\ text_calls = [r \in Reqs |-> 0]
    /\ images = [r \in Reqs |-> <<>>]
    /\ image_log = [r \in Reqs |-> <<>>]
    /\ deck = [r \in Reqs |-> <<>>]
    /\ sn = [r \in Reqs |-> 0]
    /\ buf = [r \in Reqs |-> EmptyBuf]
    /\ file_bytes = [r \in Reqs |-> <<>>]
    /\ resp = [r \in Reqs |-> NoResponse]
    /\ theme_log = <<>>
    /\ image_calls = [r \in Reqs |-> <<>>]
    /\ naming = NoName
    /\ download = NoDownload
    /\ imaging \in ImageCalls

\* generate_image(prompt) runs to its return.
GenerateImage ==
    /\ imaging.pc = "call"
    /\ LET made == generate_image(imaging.has_key, imaging.run)
       IN  imaging' = [imaging EXCEPT !.pc = "returned", !.result = made.result,
                                      !.posts = made.posts, !.sleeps = made.sleeps]
    /\ UNCHANGED <<colors, db_log, pc, env, text_calls, images, image_log, deck,
                   sn, buf, file_bytes, resp, theme_log, image_calls, naming,
                   download>>

SpecImage == InitImage /\ [][GenerateImage]_vars

(***************************************************************************)
(* Properties                                                              *)
(***************************************************************************)
\* generate_slide_content gave request r a document.
HasDocument(r) == env[r].logged /\ generate_slide_content(env[r].text).ok
\* generate_ppt has returned or raised.
Returned(r) == pc[r] = "done"
\* Slides 2..10 are all present, each with its title and the field its builder
\* reads.
ValidDoc(doc) ==
    \A k \in ContentSlides :
        k \in DOMAIN doc.slides /\ doc.slides[k].title /\ doc.slides[k].body
MissingSlides(doc) == ContentSlides \ DOMAIN doc.slides
\* The positions in db_log of the inserts of request r.
InsertsOf(r) ==
    {i \in 1..Len(db_log) : db_log[i].op = "insert" /\ db_log[i].req = r}
\* bytes is the file of a deck of ten finished slides, in order.
SerializedFull(bytes) ==
    /\ Len(bytes) = TOTAL_SLIDES + 1
    /\ bytes[1].part = "presentation"
    /\ bytes[1].slides = TOTAL_SLIDES
    /\ \A k \in 1..TOTAL_SLIDES :
          /\ bytes[k + 1].part = "slide"
          /\ bytes[k + 1].slide.kind = k
          /\ bytes[k + 1].slide.complete
\* Every response to the image request of slide k is something other than a
\* picture, or there is no API key.
ImageFails(r, k) ==
    /\ HasPrompt(env[r].doc, k)
    /\ \/ ~env[r].has_key
       \/ \A i \in 1..MaxPosts : ~env[r].img[k][i].picture
\* The colours of the theme that the document of request r names.
OwnColors(r) == apply_theme(FieldGet(env[r].doc.theme, "indigo"))

\* C1: for every document with slides 2..10 present and complete, whatever
\* slide_designs holds, generate_ppt ends with exactly 10 slides in the deck,
\* the k-th built by the builder of kind k.
C1_TenSlidesInOrder ==
    \A r \in Reqs :
        (Returned(r) /\ HasDocument(r) /\ ValidDoc(env[r].doc)) =>
            /\ Len(deck[r]) = TOTAL_SLIDES
            /\ \A k \in 1..TOTAL_SLIDES : deck[r][k].kind = k

\* C2: when two requests with different themes are served at once, every slide
\* of each deck has only the colours of its own request's theme.
C2_OwnThemeOnly ==
    \A r \in Reqs :
        (/\ \A q \in Reqs : pc[q] # "idle"
         /\ env[1].doc.theme # env[2].doc.theme) =>
            \A i \in 1..Len(deck[r]) :
                \A n \in DOMAIN deck[r][i].colors :
                    deck[r][i].colors[n] = OwnColors(r)[n]

\* C3: a history record is inserted and a file is returned only after all ten
\* slides are built and the deck is serialised: every inserted record and
\* every returned file holds ten finished slides in order, nothing is inserted
\* or returned while the handler is at an earlier step, and a request that
\* ended without a file (content None, a slide missing, an exception) has
\* inserted nothing; an aborted request returns nothing.
C3_RecordAndFileOnlyAfterBuild ==
    \A r \in Reqs :
        /\ \A i \in InsertsOf(r) : SerializedFull(db_log[i].file_data)
        /\ resp[r].kind = "file" => SerializedFull(resp[r].payload)
        /\ pc[r] \in {"idle", "content", "theme", "images", "build", "save"} =>
              InsertsOf(r) = {} /\ resp[r].kind = "none"
        /\ pc[r] \in {"history", "respond", "aborted"} => resp[r].kind = "none"
        /\ (pc[r] = "done" /\ resp[r].kind # "file") => InsertsOf(r) = {}
C3_Witness ==
    \E r \in Reqs :
        pc[r] = "done" /\ resp[r].kind = "file" /\ InsertsOf(r) # {}

\* C4: if a slide of 2..10 is absent from the document, the request fails with
\* an error that names a missing slide, and no deck of fewer than 10 slides is
\* ever inserted or returned.
C4_MissingSlideFails ==
    \A r \in Reqs :
        /\ (Returned(r) /\ HasDocument(r) /\ MissingSlides(env[r].doc) # {}) =>
              /\ resp[r].kind = "exception"
              /\ resp[r].error.type = "KeyError"
              /\ resp[r].error.key \in {KeyOf[k] : k \in MissingSlides(env[r].doc)}
              /\ InsertsOf(r) = {}
        /\ \A i \in InsertsOf(r) : Len(db_log[i].file_data) = TOTAL_SLIDES + 1
        /\ resp[r].kind = "file" => Len(resp[r].payload) = TOTAL_SLIDES + 1

\* C5: whatever way the image service fails for slide 1, 4, 6 or 9, the
\* request of a complete document still ends with the file of a 10-slide deck
\* and that slide shows the placeholder.
C5_ImageFailureNeverFatal ==
    \A r \in Reqs :
        (Returned(r) /\ HasDocument(r) /\ ValidDoc(env[r].doc)) =>
            \A k \in ImageSlides :
                ImageFails(r, k) =>
                    /\ resp[r].kind = "file"
                    /\ Len(deck[r]) = TOTAL_SLIDES
                    /\ deck[r][k].image = "placeholder"

\* C6: when generate_slide_content returns None the answer is the 500 JSON
\* error, and no image was requested, no theme applied, no slide built and no
\* record inserted.
C6_ContentNoneIsFatal ==
    \A r \in Reqs :
        (Returned(r) /\ env[r].logged /\ ~generate_slide_content(env[r].text).ok) =>
            /\ resp[r].kind = "json"
            /\ resp[r].status = 500
            /\ resp[r].body =
                 "Failed to generate presentation content. Please try again."
            /\ images[r] = <<>>
            /\ image_log[r] = <<>>
            /\ colors = DesignTokens
            /\ deck[r] = <<>>
            /\ InsertsOf(r) = {}
C6_Witness ==
    \E r \in Reqs :
        /\ pc[r] = "done" /\ env[r].logged /\ resp[r].kind = "json"
        /\ text_calls[r] = 2

\* C7: when the history insert fails (no connection, execute raises, commit
\* raises) the request still answers with the file of the deck it built.
C7_HistoryFailureKeepsDownload ==
    \A r \in Reqs :
        (/\ Returned(r) /\ HasDocument(r)
         /\ Len(deck[r]) = TOTAL_SLIDES
         /\ deck[r][TOTAL_SLIDES].complete
         /\ env[r].db # "ok") =>
            /\ resp[r].kind = "file"
            /\ resp[r].status = 200
            /\ resp[r].payload = Serialize(deck[r])
C7_Witness ==
    \E r \in Reqs :
        /\ pc[r] = "done" /\ resp[r].kind = "file"
        /\ env[r].db = "no_connection"
        /\ InsertsOf(r) = {}

\* C8: on a successful request the bytes handed to the history insert are the
\* bytes of the download.
C8_InsertedBytesAreDownload ==
    \A r \in Reqs :
        (Returned(r) /\ resp[r].kind = "file") =>
            /\ file_bytes[r] = resp[r].payload
            /\ \A i \in InsertsOf(r) : db_log[i].file_data = resp[r].payload
C8_Witness ==
    \E r \in Reqs :
        /\ pc[r] = "done" /\ resp[r].kind = "file" /\ env[r].db = "ok"
        /\ \E i \in InsertsOf(r) : Len(db_log[i].file_data) = TOTAL_SLIDES + 1

\* C9: for each slide 2..9 no more than one builder runs, exactly one once the
\* dispatch has passed the slide, and it is builder B exactly when
\* slide_designs holds "B" under the slide's key (builder A when the key is
\* missing or holds anything else).
C9_VariantByDesign ==
    \A r \in Reqs : \A k \in VariantSlides :
        LET built == {i \in 1..Len(deck[r]) : deck[r][i].kind = k}
            designs == env[r].doc.designs
            isB == KeyOf[k] \in DOMAIN designs /\ designs[KeyOf[k]] = "B"
        IN  /\ Cardinality(built) <= 1
            /\ sn[r] > k => Cardinality(built) = 1
            /\ \A i \in built : deck[r][i].variant = IF isB THEN "B" ELSE "A"
C9_Witness ==
    \E r \in Reqs :
        /\ pc[r] = "done" /\ resp[r].kind = "file"
        /\ \E j, k \in VariantSlides :
              /\ KeyOf[j] \notin DOMAIN env[r].doc.designs
              /\ deck[r][j].variant = "A"
              /\ KeyOf[k] \in DOMAIN env[r].doc.designs
              /\ deck[r][k].variant = "B"

\* The seven colours of the indigo theme.
IndigoColors ==
    [DEEP_NAVY |-> <<45, 0, 79>>, ROYAL_BLUE |-> <<75, 0, 130>>,
     WARM_CORAL |-> <<139, 92, 246>>, TEAL |-> <<107, 33, 168>>,
     SOFT_CREAM |-> <<248, 247, 252>>, LIGHT_BLUE_TINT |-> <<255, 255, 255>>,
     LIGHT_CORAL_TINT |-> <<243, 240, 250>>]

\* C10: when the document's theme is none of indigo, nature, moss, navy (the
\* empty string and a missing "theme" included), the request goes on past the
\* theme and the colours in effect are the seven of indigo.
C10_UnknownThemeIsIndigo ==
    \A r \in Reqs :
        (/\ \/ pc[r] \in {"images", "build", "save", "history", "respond"}
            \/ pc[r] = "done" /\ HasDocument(r)
         /\ env[r].doc.theme \notin {"indigo", "nature", "moss", "navy"}) =>
            colors = IndigoColors
C10_Witness ==
    \E r \in Reqs :
        /\ pc[r] = "done" /\ resp[r].kind = "file"
        /\ env[r].doc.theme = ""
        /\ colors = IndigoColors

\* C11: the seven colours in effect after apply_theme(x) depend only on x: any
\* two calls with the same name leave the same seven colours, whatever was
\* applied in between, and each call leaves exactly the colours THEMES gives
\* the name (indigo's for a name that is no theme), none from an earlier call.
C11_ThemeDependsOnNameOnly ==
    /\ \A i, j \in 1..Len(theme_log) :
          theme_log[i].name = theme_log[j].name =>
              theme_log[i].colors = theme_log[j].colors
    /\ \A i \in 1..Len(theme_log) :
          LET t == IF theme_log[i].name \in DOMAIN THEMES
                   THEN THEMES[theme_log[i].name] ELSE THEMES["indigo"]
          IN  theme_log[i].colors =
                [DEEP_NAVY |-> t.dark, ROYAL_BLUE |-> t.primary,
                 WARM_CORAL |-> t.secondary, TEAL |-> t.tertiary,
                 SOFT_CREAM |-> t.light_bg, LIGHT_BLUE_TINT |-> t.card_bg,
                 LIGHT_CORAL_TINT |-> t.card_alt]
C11_Witness ==
    /\ Len(theme_log) = 3
    /\ theme_log[1].name = "indigo"
    /\ theme_log[2].name = "navy"
    /\ theme_log[3].name = "indigo"
    /\ theme_log[2].colors # theme_log[1].colors
    /\ colors = theme_log[1].colors
    /\ pc[1] = "done" /\ resp[1].kind = "file"

\* The box the builder of slide k of request r gives a picture.
PictureBox(r, k) ==
    ImageOf(k, Variant(env[r].doc.designs, k), "picture").box

\* C12: when the images map is empty, the request of a document whose slides
\* 2..10 are present with their fields still ends with the file of a 10-slide
\* deck, and slides 1, 4, 6 and 9 each hold the grey box labelled "IMAGE" on
\* the box the picture would have had.
C12_NoImagesAllPlaceholders ==
    \A r \in Reqs :
        (/\ Returned(r) /\ HasDocument(r) /\ ValidDoc(env[r].doc)
         /\ images[r] = <<>>) =>
            /\ resp[r].kind = "file"
            /\ Len(deck[r]) = TOTAL_SLIDES
            /\ \A k \in ImageSlides :
                  /\ deck[r][k].image = "placeholder"
                  /\ deck[r][k].image_label = "IMAGE"
                  /\ deck[r][k].image_box = PictureBox(r, k)

\* Two shapes overlap: they share more than an edge.
Overlap(a, b) ==
    /\ a.left < b.left + b.width /\ b.left < a.left + a.width
    /\ a.top < b.top + b.height /\ b.top < a.top + a.height
\* The lists of slide k in the document of request r hold at least one entry.
HasEntries(r, k) ==
    /\ k \in DOMAIN env[r].doc.slides
    /\ Len(env[r].doc.slides[k].items) >= 1
    /\ Len(env[r].doc.slides[k].right) >= 1

\* C13: with one or more cards, bullets or steps in a slide's list, its
\* builder does not divide by zero and draws at least one item; every shape
\* of every item drawn has width and height >= 0; no shape of one item overlaps a shape of another item of
\* the slide; and builder 5B with 2 cards draws a row of 2 equal columns
\* that starts at the left margin and ends at the right one.
C13_ItemGeometry ==
    \A r \in Reqs :
        /\ (resp[r].kind = "exception" /\ resp[r].error.type = "ZeroDivisionError")
              => ~HasEntries(r, resp[r].error.at)
        /\ \A s \in 1..Len(deck[r]) :
              LET items == deck[r][s].items
              IN  /\ (/\ deck[r][s].complete
                      /\ deck[r][s].kind \in {2, 3, 5, 8, 10}
                      /\ HasEntries(r, deck[r][s].kind)) => Len(items) >= 1
                  /\ \A i \in 1..Len(items) : \A a \in 1..Len(items[i].boxes) :
                        /\ items[i].boxes[a].width >= 0
                        /\ items[i].boxes[a].height >= 0
                        /\ \A j \in (i + 1)..Len(items) :
                              \A b \in 1..Len(items[j].boxes) :
                                  ~Overlap(items[i].boxes[a], items[j].boxes[b])
                  /\ (/\ deck[r][s].kind = 5 /\ deck[r][s].variant = "B"
                      /\ deck[r][s].complete
                      /\ Len(env[r].doc.slides[5].items) = 2) =>
                        /\ Len(items) = 2
                        /\ items[1].boxes[1].left = Inches(MG)
                        /\ items[1].boxes[1].width = items[2].boxes[1].width
                        /\ items[2].boxes[1].left + items[2].boxes[1].width
                              \in (Inches(MG + CW) - 1)..Inches(MG + CW)
C13_Witness ==
    \E r \in Reqs :
        /\ pc[r] = "done" /\ resp[r].kind = "file"
        /\ Len(env[r].doc.slides[5].items) = 2
        /\ deck[r][5].variant = "B"
        /\ Len(deck[r][5].items) = 2
        /\ deck[r][5].items[1].boxes[1].width > 0

\* C14: no builder divides by zero on an empty list: a request never ends
\* with ZeroDivisionError, and a slide whose list is empty is still built,
\* without any item.
C14_EmptyListSkipsRow ==
    \A r \in Reqs :
        /\ resp[r].kind = "exception" => resp[r].error.type # "ZeroDivisionError"
        /\ \A s \in 1..Len(deck[r]) :
              LET k == deck[r][s].kind
              IN  (/\ k \in {2, 3, 5, 8, 10}
                   /\ env[r].doc.slides[k].title /\ env[r].doc.slides[k].body
                   /\ env[r].doc.slides[k].items = <<>>) =>
                      deck[r][s].complete /\ deck[r][s].items = <<>>

\* The maximum the builders of a kind and variant are held to: 3 cards for
\* kinds 2, 3A and 10, 4 cards for 3B and 5, 4 steps for 8.
StatedMaximum(kind, variant) ==
    CASE kind \in {2, 10} -> 3
      [] kind = 3 /\ variant # "B" -> 3
      [] OTHER -> 4

\* C15: a finished slide of kind 2, 3, 5, 8 or 10 renders exactly the first
\* min(n, maximum) entries of its list, in the order of the list: excess
\* entries are dropped from the end and no entry is added.
C15_FirstMaximumItemsInOrder ==
    \A r \in Reqs : \A s \in 1..Len(deck[r]) :
        LET k == deck[r][s].kind
            supplied == env[r].doc.slides[k].items
            kept == Min(Len(supplied), StatedMaximum(k, deck[r][s].variant))
        IN  (deck[r][s].complete /\ k \in {2, 3, 5, 8, 10}) =>
               /\ Len(deck[r][s].items) = kept
               /\ \A i \in 1..kept : deck[r][s].items[i].item = supplied[i]
C15_Witness ==
    \E r \in Reqs :
        /\ pc[r] = "done" /\ resp[r].kind = "file"
        /\ deck[r][3].variant = "B"
        /\ Len(env[r].doc.slides[3].items) = 6
        /\ Len(deck[r][3].items) = 4
        /\ deck[r][3].items[4].item = env[r].doc.slides[3].items[4]

\* The shape lies in the bottom-right quarter of the slide, inside the canvas.
BottomRight(box) ==
    /\ 2 * box.left >= Inches(SW) /\ box.left + box.width <= Inches(SW)
    /\ 2 * box.top >= Inches(SH) /\ box.top + box.height <= Inches(SH)
    /\ box.width > 0 /\ box.height > 0

\* C16: every slide a builder has finished carries the indicator "k / 10" in
\* the bottom-right corner, k its position in the deck; the deck of a file
\* that is returned has ten slides, every one finished.
C16_PageIndicator ==
    \A r \in Reqs :
        /\ \A s \in 1..Len(deck[r]) :
              deck[r][s].complete =>
                 /\ deck[r][s].number = <<s, 10>>
                 /\ BottomRight(deck[r][s].number_box)
        /\ resp[r].kind = "file" =>
              /\ Len(deck[r]) = 10
              /\ \A s \in 1..10 : deck[r][s].complete
C16_Witness ==
    \E r \in Reqs :
        /\ pc[r] = "done" /\ resp[r].kind = "file"
        /\ deck[r][1].number = <<1, 10>>
        /\ deck[r][10].number = <<10, 10>>
        /\ BottomRight(deck[r][10].number_box)

\* C17: building slides 2..10 from the content document fails for a missing
\* key only when the slide itself or its "title" is absent: a KeyError is
\* never raised for a slide that is present and has its title.
C17_OnlySlideAndTitleRequired ==
    \A r \in Reqs :
        (resp[r].kind = "exception" /\ resp[r].error.type = "KeyError") =>
            LET k == resp[r].error.at
            IN  \/ k \notin DOMAIN env[r].doc.slides
                \/ ~env[r].doc.slides[k].title

\* C18: generate_image is called only for slides 1, 4, 6 and 9, at most once
\* for each (at most 4 calls in a request) and only for a slide whose prompt
\* is non-empty; images are kept under these indices only; a slide of any
\* other kind shows no picture and no placeholder, and a finished slide of
\* kind 1, 4, 6 or 9 shows the image kept under its own index.
C18_ImagesOnlyForImageSlides ==
    \A r \in Reqs :
        LET calls == image_calls[r]
        IN  /\ Len(calls) <= 4
            /\ \A i \in 1..Len(calls) :
                  /\ calls[i] \in {1, 4, 6, 9}
                  /\ HasPrompt(env[r].doc, calls[i])
                  /\ \A j \in 1..Len(calls) : calls[i] = calls[j] => i = j
            /\ DOMAIN images[r] \subseteq {1, 4, 6, 9}
            /\ \A k \in DOMAIN images[r] : \E i \in 1..Len(calls) : calls[i] = k
            /\ \A s \in 1..Len(deck[r]) :
                  LET k == deck[r][s].kind
                  IN  /\ k \notin {1, 4, 6, 9} =>
                            deck[r][s].image = "none" /\ deck[r][s].image_label = ""
                      /\ (k \in {1, 4, 6, 9} /\ deck[r][s].complete) =>
                            deck[r][s].image =
                               IF k \in DOMAIN images[r] /\ images[r][k] # None
                               THEN "picture" ELSE "placeholder"
C18_Witness ==
    \E r \in Reqs :
        /\ pc[r] = "done" /\ resp[r].kind = "file"
        /\ image_calls[r] = <<4, 9>>
        /\ env[r].doc.slides[2].image_prompt
        /\ deck[r][2].image = "none"
        /\ deck[r][4].image = "picture" /\ deck[r][9].image = "picture"
        /\ deck[r][1].image = "placeholder" /\ deck[r][6].image = "placeholder"

\* C19: safe_filename applied to its own result gives that result back.
C19_SafeFilenameIdempotent ==
    naming.pc = "renamed" => naming.again = naming.filename
C19_Witness ==
    /\ naming.pc = "renamed"
    /\ naming.again = naming.filename
    /\ Len(naming.raw_title) > FilenameLimit
    /\ Len(naming.filename) < Len(naming.raw_title)
    /\ \E i \in 1..Len(naming.filename) : naming.filename[i] = "_"
    /\ \E i \in 1..Len(naming.raw_title) : naming.raw_title[i] = "!"

\* C20: the result of safe_filename has at most 50 characters, each a word
\* character (a letter, a digit or "_") or a hyphen; none is whitespace.
C20_SafeFilenameShortAndClean ==
    naming.pc \in {"named", "renamed"} =>
        /\ Len(naming.filename) <= 50
        /\ \A i \in 1..Len(naming.filename) :
              /\ naming.filename[i] \in WordChars \cup {"-"}
              /\ naming.filename[i] \notin Whitespace
C20_Witness ==
    /\ naming.pc = "named"
    /\ Len(naming.raw_title) > 50
    /\ Len(naming.filename) = 50
    /\ \E i \in 1..Len(naming.raw_title) : naming.raw_title[i] \in Whitespace
    /\ naming.filename # Take(naming.raw_title, 50)

\* C21: safe_filename never returns the empty string; for the empty text and
\* for every text that holds nothing but characters the pattern removes, it
\* returns "presentation".
C21_SafeFilenameNeverEmpty ==
    naming.pc \in {"named", "renamed"} =>
        /\ naming.filename # <<>>
        /\ (\A i \in 1..Len(naming.raw_title) :
                naming.raw_title[i] \notin WordChars \cup Whitespace \cup {"-"})
              => naming.filename = Presentation
C21_Witness ==
    /\ naming.pc = "named"
    /\ naming.raw_title = <<"!", ".">>
    /\ naming.filename = Presentation

\* C22: for a logged-in user, download_presentation answers with the stored
\* file_data of the row pres_id when that row exists and belongs to the
\* session's user, and with a redirect to /history and no bytes otherwise;
\* it never inserts into presentations.
C22_DownloadOwnRecordOnly ==
    /\ \A i \in 1..Len(download.log) : download.log[i] # "insert"
    /\ (download.pc = "done" /\ download.connected /\ download.logged) =>
          IF /\ download.pres_id \in DOMAIN download.table
             /\ download.table[download.pres_id].user_email = download.email
          THEN /\ download.resp.kind = "file"
               /\ download.resp.payload = download.table[download.pres_id].file_data
          ELSE /\ download.resp = Redirect("/history")
               /\ download.resp.payload = <<>>

\* C25: the warm accent and the teal accent are the same fixed colours
\* whatever theme is applied: apply_theme leaves WARM_CORAL and TEAL as the
\* module set them, and every slide that uses them is drawn with those.
C25_AccentsThemeIndependent ==
    /\ colors.WARM_CORAL = DesignTokens.WARM_CORAL
    /\ colors.TEAL = DesignTokens.TEAL
    /\ \A i \in 1..Len(theme_log) :
          /\ theme_log[i].colors.WARM_CORAL = DesignTokens.WARM_CORAL
          /\ theme_log[i].colors.TEAL = DesignTokens.TEAL
    /\ \A r \in Reqs : \A s \in 1..Len(deck[r]) :
          \A n \in DOMAIN deck[r][s].colors \cap {"WARM_CORAL", "TEAL"} :
              deck[r][s].colors[n] = DesignTokens[n]

\* C26: generate_slide_content calls the text service at most twice; it
\* returns after the first call whose text is valid JSON, and it returns
\* None exactly when both calls fail, each with an exception or with text
\* that is not JSON.
C26_ContentAtMostTwoCalls ==
    \A r \in Reqs :
        (env[r].logged /\ pc[r] \notin {"idle", "content", "aborted"}) =>
            LET run == env[r].text
                valid == {i \in 1..2 : run[i] \in {"json", "null"}}
            IN  /\ text_calls[r] <= 2
                /\ valid # {} => \A i \in valid : text_calls[r] <= i
                /\ valid = {} => text_calls[r] = 2
                /\ (resp[r] = ContentFailure) <=> (valid = {})

\* The response is one generate_image returns the body of.
Accepted(answer) ==
    answer.kind = "http" /\ answer.status = 200 /\ (answer.ct_image \/ answer.big)
\* Which attempt on its endpoint the i-th request is.
AttemptNo(posts, i) == Cardinality({j \in 1..i : posts[j] = posts[i]})

\* C27: generate_image returns after at most 6 requests, at most 3 to each
\* endpoint and every request to the first endpoint before any to the
\* second; without an API key it posts nothing; it returns the body of the
\* first accepted response, or None when no response was accepted.
C27_ImageBoundedRequests ==
    imaging.pc = "returned" =>
        LET posts == imaging.posts
            n == Len(posts)
        IN  /\ n <= 6
            /\ \A u \in 1..2 : Cardinality({i \in 1..n : posts[i] = u}) <= 3
            /\ \A i \in 1..n : posts[i] \in 1..2
            /\ \A i \in 1..n : \A j \in i..n : posts[i] <= posts[j]
            /\ ~imaging.has_key => n = 0 /\ imaging.result = None
            /\ \A i \in 1..n : Accepted(imaging.run[i]) => i = n
            /\ IF n > 0 /\ Accepted(imaging.run[n])
               THEN imaging.result = Body(imaging.run[n])
               ELSE imaging.result = None
C27_Witness ==
    /\ imaging.pc = "returned"
    /\ imaging.posts = <<1, 1, 1, 2, 2, 2>>
    /\ imaging.result = "picture"

\* C28: 401 or 403 ends generate_image at once with None; any other status
\* that is neither 200 nor 503 ends the attempts on its endpoint only, and
\* the next endpoint is tried; 503 and a timeout are retried on the same
\* endpoint while attempts remain; time.sleep is called once for each 503
\* that is not the third attempt on its endpoint, and never otherwise.
C28_ImageStatusHandling ==
    (imaging.pc = "returned" /\ imaging.has_key) =>
        LET posts == imaging.posts
            n == Len(posts)
            run == imaging.run
        IN  /\ \A i \in 1..n :
                  (run[i].kind = "http" /\ run[i].status \in {401, 403}) =>
                      i = n /\ imaging.result = None
            /\ \A i \in 1..n :
                  (run[i].kind = "http" /\ run[i].status \notin {200, 503, 401, 403}) =>
                      /\ i < n => posts[i + 1] # posts[i]
                      /\ posts[i] = 1 => (i < n /\ posts[i + 1] = 2)
            /\ \A i \in 1..n :
                  (/\ (run[i].kind = "http" /\ run[i].status = 503)
                         \/ run[i].kind = "timeout"
                   /\ AttemptNo(posts, i) < 3) =>
                      i < n /\ posts[i + 1] = posts[i]
            /\ imaging.sleeps =
                  Cardinality({i \in 1..n : /\ run[i].kind = "http"
                                            /\ run[i].status = 503
                                            /\ AttemptNo(posts, i) < 3})
C28_Witness ==
    /\ imaging.pc = "returned" /\ imaging.has_key
    /\ imaging.posts = <<1, 1, 2, 2, 2>>
    /\ imaging.run[1] = RespLoading /\ imaging.run[2] = RespServerError
    /\ imaging.run[3] = RespTimeout /\ imaging.run[4] = RespLoading
    /\ imaging.run[5] = RespForbidden
    /\ imaging.sleeps = 2 /\ imaging.result = None

\* C23: on a finished slide whose cards lie in a row (3A, 3B, 5B and the
\* closing slide 10), each of the n cards drawn is (CW - (n - 1) * GAP) / n
\* wide and the i-th starts at MG + (i - 1) * (width + GAP), so that the
\* row runs from MG to SW - MG with GAP between neighbours.
C23_RowWidthFromActualCount ==
    \A r \in Reqs : \A s \in 1..Len(deck[r]) :
        LET k == deck[r][s].kind
            items == deck[r][s].items
            n == Len(items)
        IN  (/\ deck[r][s].complete
             /\ k = 3 \/ (k = 5 /\ deck[r][s].variant = "B") \/ k = 10
             /\ n >= 1) =>
                LET w == (CW - (n - 1) * GAP) \div n
                IN  /\ \A i \in 1..n :
                          /\ items[i].boxes[1].width = Inches(w)
                          /\ items[i].boxes[1].left = Inches(MG + (i - 1) * (w + GAP))
                    /\ items[n].boxes[1].left + items[n].boxes[1].width
                          \in (Inches(SW - MG) - 1)..Inches(SW - MG)

\* The region a stack of items is fitted into, by builder: its height H, the
\* gap g between items, the cap on an item's height and its bottom edge.
StackRegion(kind) ==
    CASE kind = 2 -> [H |-> SH - CT - MG, g |-> Mil(200), cap |-> Mil(1600),
                      bottom |-> SH - MG]
      [] kind = 6 -> [H |-> SH - Mil(1100) - CT - Mil(200), g |-> Mil(150),
                      cap |-> Mil(800), bottom |-> SH - Mil(1100) - Mil(200)]
      [] OTHER -> [H |-> Mil(5000), g |-> Mil(200), cap |-> Mil(1100),
                   bottom |-> CT + Mil(5000)]

\* C24: on a finished slide 2B, 6B or 8B the n items drawn are stacked from
\* CT down, each min((H - (n - 1) * g) / n, cap) high with g between
\* neighbours, and the last ends at or above the bottom of the region.
C24_StackHeightFromActualCount ==
    \A r \in Reqs : \A s \in 1..Len(deck[r]) :
        LET k == deck[r][s].kind
            items == deck[r][s].items
            n == Len(items)
            R == StackRegion(k)
        IN  (/\ deck[r][s].complete /\ deck[r][s].variant = "B"
             /\ k \in {2, 6, 8} /\ n >= 1) =>
                LET h == Min((R.H - (n - 1) * R.g) \div n, R.cap)
                IN  /\ \A i \in 1..n :
                          /\ items[i].boxes[1].height = Inches(h)
                          /\ items[i].boxes[1].top = Inches(CT + (i - 1) * (h + R.g))
                    /\ items[n].boxes[1].top + items[n].boxes[1].height
                          <= Inches(R.bottom)
C24_Witness ==
    \E r \in Reqs :
        /\ pc[r] = "done" /\ resp[r].kind = "file"
        /\ deck[r][2].variant = "B" /\ Len(deck[r][2].items) = 3
        /\ deck[r][2].items[1].boxes[1].height < Inches(Mil(1600))
        /\ deck[r][2].items[3].boxes[1].top + deck[r][2].items[3].boxes[1].height
              = Inches(SH - MG)

\* C29: on a finished slide 7B with at least one bullet on each side, every
\* divider and every text box of a bullet row, left and right, lies between
\* the top CT and the bottom CT + 5.00 of its card, and no text box has a
\* negative height.
C29_GridRowsInsideCard ==
    \A r \in Reqs : \A s \in 1..Len(deck[r]) :
        (/\ deck[r][s].complete
         /\ deck[r][s].kind = 7 /\ deck[r][s].variant = "B"
         /\ HasEntries(r, 7)) =>
            \A i \in 1..Len(deck[r][s].items) :
                \A a \in 1..Len(deck[r][s].items[i].boxes) :
                    LET box == deck[r][s].items[i].boxes[a]
                    IN  /\ box.height >= 0
                        /\ box.top >= Inches(CT)
                        /\ box.top + box.height <= Inches(CT + Mil(5000))

\* The shape lies within the canvas of SW by SH.
InCanvas(box) ==
    /\ 0 <= box.left /\ box.left + box.width <= Inches(SW)
    /\ 0 <= box.top /\ box.top + box.height <= Inches(SH)

\* C30: on every finished slide whose lists hold at least one entry, every
\* shape lies within the canvas: the shapes drawn whatever the lists hold,
\* the image or its placeholder, the shapes of every item and the page
\* indicator.
C30_ShapesInsideCanvas ==
    \A r \in Reqs : \A s \in 1..Len(deck[r]) :
        LET slide == deck[r][s]
        IN  (slide.complete /\ (slide.kind = 1 \/ HasEntries(r, slide.kind))) =>
               /\ \A a \in 1..Len(slide.shapes) : InCanvas(slide.shapes[a])
               /\ slide.kind \in {1, 4, 6, 9} => InCanvas(slide.image_box)
               /\ InCanvas(slide.number_box)
               /\ \A i \in 1..Len(slide.items) :
                     \A a \in 1..Len(slide.items[i].boxes) :
                         InCanvas(slide.items[i].boxes[a])

====
